---- MODULE Spec2Model ----
(***************************************************************************)
(* Content-normalization and fallback-synthesis pipeline of the Evolution  *)
(* Content Builder backend (src/app.py, src/backend/main.py).              *)
(*                                                                         *)
(* A Python str is modelled as a sequence of one-character strings, so     *)
(* that strip, split, slicing and json.loads are computed character by     *)
(* character.  A Python object is a tagged record:                         *)
(*   [t |-> "str",  s |-> chars]      [t |-> "int",  n |-> Int]            *)
(*   [t |-> "bool", b |-> BOOLEAN]    [t |-> "None"]                       *)
(*   [t |-> "list", items |-> Seq]    [t |-> "dict", kv |-> Seq of [k,v]]  *)
(* A dict keeps its items in insertion order, as Python does.              *)
(***************************************************************************)
EXTENDS Integers, Sequences, FiniteSets, TLC

(***************************************************************************)
(* Python values                                                           *)
(***************************************************************************)
PyStr(s) == [t |-> "str", s |-> s]
PyInt(n) == [t |-> "int", n |-> n]
PyBool(b) == [t |-> "bool", b |-> b]
PyNone == [t |-> "None"]
PyList(xs) == [t |-> "list", items |-> xs]
PyDict(kv) == [t |-> "dict", kv |-> kv]
KV(k, v) == [k |-> k, v |-> v]

IsStr(v) == v.t = "str"
IsDict(v) == v.t = "dict"
IsList(v) == v.t = "list"

\* key in d
HasKey(d, k) == \E i \in 1..Len(d.kv) : d.kv[i].k = k

\* d.get(k, default)
Get(d, k, default) ==
    IF HasKey(d, k)
    THEN d.kv[CHOOSE i \in 1..Len(d.kv) : d.kv[i].k = k].v
    ELSE default

\* d[k] = v : an existing key keeps its position, a new key is appended
SetItem(d, k, v) ==
    IF HasKey(d, k)
    THEN PyDict([i \in 1..Len(d.kv) |-> IF d.kv[i].k = k THEN KV(k, v) ELSE d.kv[i]])
    ELSE PyDict(Append(d.kv, KV(k, v)))

\* d.setdefault(k, v)
SetDefault(d, k, v) == IF HasKey(d, k) THEN d ELSE SetItem(d, k, v)

\* {**a, **b}
RECURSIVE Merge(_, _)
Merge(a, b) ==
    IF b.kv = <<>> THEN a
    ELSE Merge(SetItem(a, Head(b.kv).k, Head(b.kv).v), PyDict(Tail(b.kv)))

(***************************************************************************)
(* str operations                                                          *)
(***************************************************************************)
Whitespace == {" ", "\n", "\t", "\r"}

\* the indices of the characters of s that are not whitespace
Solid(s) == {i \in 1..Len(s) : s[i] \notin Whitespace}

Min(S) == CHOOSE i \in S : \A j \in S : i <= j
Max(S) == CHOOSE i \in S : \A j \in S : i >= j

\* s.strip()
Strip(s) == IF Solid(s) = {} THEN <<>> ELSE SubSeq(s, Min(Solid(s)), Max(Solid(s)))

\* s[i:i+len(sub)] == sub
MatchAt(s, sub, i) ==
    /\ i + Len(sub) - 1 <= Len(s)
    /\ \A j \in 1..Len(sub) : s[i + j - 1] = sub[j]

\* first index >= from at which sub occurs in s, 0 when it does not
Find(s, sub, from) ==
    LET hits == {i \in from..(Len(s) - Len(sub) + 1) : MatchAt(s, sub, i)}
    IN  IF hits = {} THEN 0 ELSE Min(hits)

\* sub in s
Contains(s, sub) == Find(s, sub, 1) # 0

\* s.split(sep, 1)
SplitOnce(s, sep) ==
    LET i == Find(s, sep, 1) IN
    IF i = 0 THEN <<s>>
    ELSE <<SubSeq(s, 1, i - 1), SubSeq(s, i + Len(sep), Len(s))>>

\* s.split(sep)
RECURSIVE Split(_, _)
Split(s, sep) ==
    LET i == Find(s, sep, 1) IN
    IF i = 0 THEN <<s>>
    ELSE <<SubSeq(s, 1, i - 1)>> \o Split(SubSeq(s, i + Len(sep), Len(s)), sep)

\* the slice taken one character too long: s[:n + 1]
Prefix_OneMore(s, n) == IF Len(s) <= n + 1 THEN s ELSE SubSeq(s, 1, n + 1)

\* s[:n]
Prefix(s, n) == IF Len(s) <= n THEN s ELSE SubSeq(s, 1, n)

LowerCase ==
    <<"a", "b", "c", "d", "e", "f", "g", "h", "i", "j", "k", "l", "m",
      "n", "o", "p", "q", "r", "s", "t", "u", "v", "w", "x", "y", "z">>
UpperCase ==
    <<"A", "B", "C", "D", "E", "F", "G", "H", "I", "J", "K", "L", "M",
      "N", "O", "P", "Q", "R", "S", "T", "U", "V", "W", "X", "Y", "Z">>

IsLower(c) == \E i \in 1..Len(LowerCase) : LowerCase[i] = c
IsUpper(c) == \E i \in 1..Len(UpperCase) : UpperCase[i] = c
IsAlpha(c) == IsLower(c) \/ IsUpper(c)
\* U+212A KELVIN SIGN, a letter outside ASCII whose lower case is the ASCII letter k
KelvinSign == "<kelvin sign>"

ToLower(c) ==
    IF IsUpper(c) THEN LowerCase[CHOOSE i \in 1..Len(UpperCase) : UpperCase[i] = c]
    ELSE IF c = KelvinSign THEN "k"
    ELSE c
ToUpper(c) ==
    IF IsLower(c) THEN UpperCase[CHOOSE i \in 1..Len(LowerCase) : LowerCase[i] = c] ELSE c

\* s.lower()
Lower(s) == [i \in 1..Len(s) |-> ToLower(s[i])]

\* s.replace(a, b) for one-character a and b
Replace(s, a, b) == [i \in 1..Len(s) |-> IF s[i] = a THEN b ELSE s[i]]

\* s.title(): a cased character is upper case after an uncased one, lower case otherwise
Title(s) ==
    [i \in 1..Len(s) |->
        IF i = 1 \/ ~IsAlpha(s[i - 1]) THEN ToUpper(s[i]) ELSE ToLower(s[i])]

Digits == <<"0", "1", "2", "3", "4", "5", "6", "7", "8", "9">>
IsDigit(c) == \E i \in 1..Len(Digits) : Digits[i] = c
DigitVal(c) == (CHOOSE i \in 1..Len(Digits) : Digits[i] = c) - 1

\* str(n) of a non-negative int
RECURSIVE NatToStr(_)
NatToStr(n) ==
    IF n < Len(Digits) THEN <<Digits[n + 1]>>
    ELSE NatToStr(n \div Len(Digits)) \o <<Digits[(n % Len(Digits)) + 1]>>

\* str(n) of an int
IntToStr(n) == IF n < 0 THEN <<"-">> \o NatToStr(0 - n) ELSE NatToStr(n)

(***************************************************************************)
(* json.loads (the standard decoder, strict mode) over the characters of   *)
(* the text: objects, arrays, strings with the escapes \" \\ \/ \n \t \r,  *)
(* integers, true, false, null; whitespace between tokens; only whitespace *)
(* may follow the value.  A parse result is [ok, val, pos]: pos is the     *)
(* index of the first character after the value.                           *)
(***************************************************************************)
JsonWhitespace == {" ", "\t", "\n", "\r"}
ControlChars == {"\n", "\t", "\r"}
ParseFail == [ok |-> FALSE, val |-> PyNone, pos |-> 0]
ParseOk(v, p) == [ok |-> TRUE, val |-> v, pos |-> p]

RECURSIVE SkipWs(_, _)
SkipWs(s, i) == IF i <= Len(s) /\ s[i] \in JsonWhitespace THEN SkipWs(s, i + 1) ELSE i

Escapes == <<"\"", "\\", "/", "n", "t", "r">>
Escaped == <<"\"", "\\", "/", "\n", "\t", "\r">>

\* the string whose opening quote is at i - 1
RECURSIVE ParseString(_, _, _)
ParseString(s, i, acc) ==
    IF i > Len(s) THEN ParseFail
    ELSE IF s[i] = "\"" THEN ParseOk(PyStr(acc), i + 1)
    ELSE IF s[i] \in ControlChars THEN ParseFail
    ELSE IF s[i] = "\\" THEN
        IF i + 1 <= Len(s) /\ \E j \in 1..Len(Escapes) : Escapes[j] = s[i + 1]
        THEN ParseString(s, i + 2,
                 Append(acc, Escaped[CHOOSE j \in 1..Len(Escapes) : Escapes[j] = s[i + 1]]))
        ELSE ParseFail
    ELSE ParseString(s, i + 1, Append(acc, s[i]))

\* the digits from i on
RECURSIVE ParseDigits(_, _, _)
ParseDigits(s, i, acc) ==
    IF i <= Len(s) /\ IsDigit(s[i])
    THEN ParseDigits(s, i + 1, acc * Len(Digits) + DigitVal(s[i]))
    ELSE ParseOk(PyInt(acc), i)

\* -?(0|[1-9][0-9]*)
ParseNumber(s, i) ==
    LET neg == s[i] = "-"
        j == IF neg THEN i + 1 ELSE i
    IN  IF j > Len(s) \/ ~IsDigit(s[j]) THEN ParseFail
        ELSE IF s[j] = "0" THEN ParseOk(PyInt(0), j + 1)
        ELSE LET r == ParseDigits(s, j, 0)
             IN  ParseOk(PyInt(IF neg THEN 0 - r.val.n ELSE r.val.n), r.pos)

LitNull == <<"n", "u", "l", "l">>
LitTrue == <<"t", "r", "u", "e">>
LitFalse == <<"f", "a", "l", "s", "e">>

RECURSIVE ParseValue(_, _)
RECURSIVE ParseMembers(_, _, _)
RECURSIVE ParseElements(_, _, _)

\* scan_once(s, i)
ParseValue(s, i) ==
    IF i > Len(s) THEN ParseFail
    ELSE IF s[i] = "\"" THEN ParseString(s, i + 1, <<>>)
    ELSE IF s[i] = "{" THEN
        LET j == SkipWs(s, i + 1) IN
        IF j <= Len(s) /\ s[j] = "}" THEN ParseOk(PyDict(<<>>), j + 1)
        ELSE ParseMembers(s, j, PyDict(<<>>))
    ELSE IF s[i] = "[" THEN
        LET j == SkipWs(s, i + 1) IN
        IF j <= Len(s) /\ s[j] = "]" THEN ParseOk(PyList(<<>>), j + 1)
        ELSE ParseElements(s, j, <<>>)
    ELSE IF MatchAt(s, LitNull, i) THEN ParseOk(PyNone, i + Len(LitNull))
    ELSE IF MatchAt(s, LitTrue, i) THEN ParseOk(PyBool(TRUE), i + Len(LitTrue))
    ELSE IF MatchAt(s, LitFalse, i) THEN ParseOk(PyBool(FALSE), i + Len(LitFalse))
    ELSE IF s[i] = "-" \/ IsDigit(s[i]) THEN ParseNumber(s, i)
    ELSE ParseFail

\* JSONObject: the members from the key at i on; a repeated key keeps the last value
ParseMembers(s, i, acc) ==
    IF i > Len(s) \/ s[i] # "\"" THEN ParseFail
    ELSE LET key == ParseString(s, i + 1, <<>>) IN
         IF ~key.ok THEN ParseFail
         ELSE LET c == SkipWs(s, key.pos) IN
              IF c > Len(s) \/ s[c] # ":" THEN ParseFail
              ELSE LET val == ParseValue(s, SkipWs(s, c + 1)) IN
                   IF ~val.ok THEN ParseFail
                   ELSE LET e == SkipWs(s, val.pos)
                            d == SetItem(acc, key.val.s, val.val)
                        IN  IF e > Len(s) THEN ParseFail
                            ELSE IF s[e] = "}" THEN ParseOk(d, e + 1)
                            ELSE IF s[e] = "," THEN ParseMembers(s, SkipWs(s, e + 1), d)
                            ELSE ParseFail

\* JSONArray: the elements from the value at i on
ParseElements(s, i, acc) ==
    LET val == ParseValue(s, i) IN
    IF ~val.ok THEN ParseFail
    ELSE LET e == SkipWs(s, val.pos) IN
         IF e > Len(s) THEN ParseFail
         ELSE IF s[e] = "]" THEN ParseOk(PyList(Append(acc, val.val)), e + 1)
         ELSE IF s[e] = "," THEN ParseElements(s, SkipWs(s, e + 1), Append(acc, val.val))
         ELSE ParseFail

\* json.loads(s): [ok |-> FALSE] stands for JSONDecodeError
JsonLoads(s) ==
    LET r == ParseValue(s, SkipWs(s, 1)) IN
    IF r.ok /\ SkipWs(s, r.pos) = Len(s) + 1 THEN r ELSE ParseFail

(***************************************************************************)
(* Python object protocol used by the pipeline                             *)
(***************************************************************************)
\* the outcome of a call: it raised, or it returned val
Raised == [raised |-> TRUE, val |-> PyNone]
Returned(v) == [raised |-> FALSE, val |-> v]

\* bool(v)
Truthy(v) ==
    CASE v.t = "str" -> v.s # <<>>
      [] v.t = "int" -> v.n # 0
      [] v.t = "bool" -> v.b
      [] v.t = "None" -> FALSE
      [] v.t = "list" -> v.items # <<>>
      [] v.t = "dict" -> v.kv # <<>>

\* s.join(parts)
RECURSIVE Join(_, _)
Join(parts, sep) ==
    IF parts = <<>> THEN <<>>
    ELSE IF Len(parts) = 1 THEN parts[1]
    ELSE parts[1] \o sep \o Join(Tail(parts), sep)

\* the body of repr(s): backslash, the quote in use and control characters escaped
RECURSIVE ReprChars(_, _)
ReprChars(s, quote) ==
    IF s = <<>> THEN <<>>
    ELSE (CASE Head(s) = "\\" -> <<"\\", "\\">>
            [] Head(s) = quote -> <<"\\", quote>>
            [] Head(s) = "\n" -> <<"\\", "n">>
            [] Head(s) = "\t" -> <<"\\", "t">>
            [] Head(s) = "\r" -> <<"\\", "r">>
            [] OTHER -> <<Head(s)>>) \o ReprChars(Tail(s), quote)

\* repr(s) of a str: double quotes when s holds ' and no "
ReprStr(s) ==
    LET quote == IF Contains(s, <<"'">>) /\ ~Contains(s, <<"\"">>) THEN "\"" ELSE "'"
    IN  <<quote>> \o ReprChars(s, quote) \o <<quote>>

\* repr(v)
RECURSIVE Repr(_)
Repr(v) ==
    CASE v.t = "str" -> ReprStr(v.s)
      [] v.t = "int" -> IntToStr(v.n)
      [] v.t = "bool" -> IF v.b THEN <<"T", "r", "u", "e">> ELSE <<"F", "a", "l", "s", "e">>
      [] v.t = "None" -> <<"N", "o", "n", "e">>
      [] v.t = "list" ->
            <<"[">> \o Join([i \in 1..Len(v.items) |-> Repr(v.items[i])], <<",", " ">>) \o <<"]">>
      [] v.t = "dict" ->
            <<"{">> \o Join([i \in 1..Len(v.kv) |->
                                ReprStr(v.kv[i].k) \o <<":", " ">> \o Repr(v.kv[i].v)], <<",", " ">>)
                   \o <<"}">>

\* str(v)
Str(v) == IF v.t = "str" THEN v.s ELSE Repr(v)

\* the elements "for p in v" yields; raised when v is not iterable
Iterate(v) ==
    CASE v.t = "list" -> Returned(v.items)
      [] v.t = "dict" -> Returned([i \in 1..Len(v.kv) |-> PyStr(v.kv[i].k)])
      [] v.t = "str" -> Returned([i \in 1..Len(v.s) |-> PyStr(<<v.s[i]>>)])
      [] OTHER -> Raised


(***************************************************************************)
(* Text analysis utilities (src/app.py 133-172)                            *)
(***************************************************************************)
STOPWORDS == {
    <<"t", "h", "e">>, <<"a", "n", "d">>, <<"o", "r">>, <<"a">>, <<"a", "n">>,
    <<"t", "o">>, <<"o", "f">>, <<"i", "n">>, <<"f", "o", "r">>, <<"o", "n">>,
    <<"w", "i", "t", "h">>, <<"a", "t">>, <<"b", "y">>, <<"f", "r", "o", "m">>,
    <<"u", "p">>, <<"a", "b", "o", "u", "t">>, <<"i", "n", "t", "o">>,
    <<"o", "v", "e", "r">>, <<"a", "f", "t", "e", "r">>, <<"i", "s">>, <<"i", "t">>,
    <<"a", "s">>, <<"b", "e">>, <<"a", "r", "e">>, <<"w", "a", "s">>,
    <<"w", "e", "r", "e">>, <<"t", "h", "i", "s">>, <<"t", "h", "a", "t">>,
    <<"t", "h", "o", "s", "e">>, <<"t", "h", "e", "s", "e">>, <<"c", "a", "n">>,
    <<"w", "i", "l", "l">>, <<"j", "u", "s", "t">>, <<"t", "h", "a", "n">>,
    <<"t", "h", "e", "n">>, <<"b", "u", "t">>, <<"s", "o">>, <<"i", "f">>,
    <<"o", "u", "t">>, <<"n", "o", "t">>, <<"n", "o">>, <<"w", "e">>, <<"y", "o", "u">>,
    <<"o", "u", "r">>, <<"t", "h", "e", "i", "r">>, <<"t", "h", "e", "y">>,
    <<"t", "h", "e", "m">>, <<"h", "e">>, <<"s", "h", "e">>, <<"h", "i", "s">>,
    <<"h", "e", "r">>, <<"i", "t", "s">>, <<"i">>, <<"m", "e">>, <<"m", "y">>
}

\* the characters of the class [A-Za-z'] after lower(), in code-point order
WordChars == <<"'">> \o LowerCase
IsWordChar(c) == \E i \in 1..Len(WordChars) : WordChars[i] = c

\* re.findall(r"[A-Za-z']+", s): the maximal runs of word characters of s, in order
WordStarts(s) == {i \in 1..Len(s) : IsWordChar(s[i]) /\ (i = 1 \/ ~IsWordChar(s[i - 1]))}
WordEnd(s, i) == Min({j \in i..Len(s) : j = Len(s) \/ ~IsWordChar(s[j + 1])})
NthSmallest(S, k) == CHOOSE x \in S : Cardinality({y \in S : y < x}) = k - 1
FindAllWords(s) ==
    LET starts == WordStarts(s) IN
    [k \in 1..Cardinality(starts) |->
        LET i == NthSmallest(starts, k) IN SubSeq(s, i, WordEnd(s, i))]

\* the pattern applied to the text as given, without lower()
tokenize_words_NoLower(text) == FindAllWords(text)

tokenize_words(text) == FindAllWords(Lower(text))

ShortLimit == 60
GoodLimit == 160
LongLimit == 300

\* the thresholds taken as inclusive upper limits
compute_readability_band_Inclusive(word_count) ==
    IF word_count <= ShortLimit THEN <<"v", "e", "r", "y", " ", "s", "h", "o", "r", "t">>
    ELSE IF word_count <= GoodLimit THEN <<"g", "o", "o", "d", " ", "l", "e", "n", "g", "t", "h">>
    ELSE IF word_count <= LongLimit THEN <<"l", "o", "n", "g">>
    ELSE <<"v", "e", "r", "y", " ", "l", "o", "n", "g">>

compute_readability_band(word_count) ==
    IF word_count < ShortLimit THEN <<"v", "e", "r", "y", " ", "s", "h", "o", "r", "t">>
    ELSE IF word_count < GoodLimit THEN <<"g", "o", "o", "d", " ", "l", "e", "n", "g", "t", "h">>
    ELSE IF word_count < LongLimit THEN <<"l", "o", "n", "g">>
    ELSE <<"v", "e", "r", "y", " ", "l", "o", "n", "g">>

Stage1ShortLimit == 80
Stage1GoodLimit == 220

\* the thresholds taken as inclusive upper limits
compute_readability_band_stage1_Inclusive(word_count) ==
    IF word_count <= Stage1ShortLimit THEN <<"v", "e", "r", "y", "_", "s", "h", "o", "r", "t">>
    ELSE IF word_count <= Stage1GoodLimit THEN <<"g", "o", "o", "d">>
    ELSE <<"l", "o", "n", "g">>

compute_readability_band_stage1(word_count) ==
    IF word_count < Stage1ShortLimit THEN <<"v", "e", "r", "y", "_", "s", "h", "o", "r", "t">>
    ELSE IF word_count < Stage1GoodLimit THEN <<"g", "o", "o", "d">>
    ELSE <<"l", "o", "n", "g">>

MinKeywordLen == 3

\* a < b for two strings of word characters (code-point order, a prefix first)
RECURSIVE StrLess(_, _)
StrLess(a, b) ==
    IF b = <<>> THEN FALSE
    ELSE IF a = <<>> THEN TRUE
    ELSE IF Head(a) = Head(b) THEN StrLess(Tail(a), Tail(b))
    ELSE (CHOOSE i \in 1..Len(WordChars) : WordChars[i] = Head(a))
            < (CHOOSE i \in 1..Len(WordChars) : WordChars[i] = Head(b))

\* the keys of freq in insertion order: each word at its first occurrence
RECURSIVE FirstOccurrences(_, _)
FirstOccurrences(words, seen) ==
    IF words = <<>> THEN seen
    ELSE IF \E i \in 1..Len(seen) : seen[i] = Head(words)
         THEN FirstOccurrences(Tail(words), seen)
         ELSE FirstOccurrences(Tail(words), Append(seen, Head(words)))

\* freq[w]
Frequency(words, w) == Cardinality({i \in 1..Len(words) : words[i] = w})

\* the key (-item[1], len(item[0]), item[0]): the shorter word first
KeyLess_ShortestFirst(words, a, b) ==
    LET fa == Frequency(words, a)
        fb == Frequency(words, b)
    IN  \/ fa > fb
        \/ fa = fb /\ Len(a) < Len(b)
        \/ fa = fb /\ Len(a) = Len(b) /\ StrLess(a, b)

\* the key (-item[1], -len(item[0])): words of equal frequency and length stay in the
\* order of their first occurrence
KeyLess_FirstOccurrence(words, a, b) ==
    LET fa == Frequency(words, a)
        fb == Frequency(words, b)
    IN  \/ fa > fb
        \/ fa = fb /\ Len(a) > Len(b)

\* (-item[1], -len(item[0]), item[0]) of a is smaller than that of b
KeyLess(words, a, b) ==
    LET fa == Frequency(words, a)
        fb == Frequency(words, b)
    IN  \/ fa > fb
        \/ fa = fb /\ Len(a) > Len(b)
        \/ fa = fb /\ Len(a) = Len(b) /\ StrLess(a, b)

\* sorted(): w inserted after every element whose key is not larger (stable)
RECURSIVE InsertSorted(_, _, _)
InsertSorted(words, sorted, w) ==
    IF sorted = <<>> THEN <<w>>
    ELSE IF KeyLess(words, w, Head(sorted)) THEN <<w>> \o sorted
    ELSE <<Head(sorted)>> \o InsertSorted(words, Tail(sorted), w)

RECURSIVE SortByKey(_, _, _)
SortByKey(words, keys, sorted) ==
    IF keys = <<>> THEN sorted
    ELSE SortByKey(words, Tail(keys), InsertSorted(words, sorted, Head(keys)))

\* the filter without the length test
Qualifies_StopwordsOnly(word) == word \notin STOPWORDS

Qualifies(word) == ~(Len(word) <= MinKeywordLen \/ word \in STOPWORDS)

extract_keywords(text, limit) ==
    LET words == SelectSeq(tokenize_words(text), Qualifies)
    IN  Prefix(SortByKey(words, FirstOccurrences(words, <<>>), <<>>), limit)

(***************************************************************************)
(* The second copy of the text utilities (src/backend/core/text_utils.py   *)
(* 31-143), translated from its own source                                 *)
(***************************************************************************)
text_utils_STOPWORDS == {
    <<"t", "h", "e">>, <<"a", "n", "d">>, <<"o", "r">>, <<"a">>, <<"a", "n">>,
    <<"t", "o">>, <<"o", "f">>, <<"i", "n">>, <<"f", "o", "r">>, <<"o", "n">>,
    <<"w", "i", "t", "h">>, <<"a", "t">>, <<"b", "y">>, <<"f", "r", "o", "m">>,
    <<"u", "p">>, <<"a", "b", "o", "u", "t">>, <<"i", "n", "t", "o">>,
    <<"o", "v", "e", "r">>, <<"a", "f", "t", "e", "r">>, <<"i", "s">>, <<"i", "t">>,
    <<"a", "s">>, <<"b", "e">>, <<"a", "r", "e">>, <<"w", "a", "s">>,
    <<"w", "e", "r", "e">>, <<"t", "h", "i", "s">>, <<"t", "h", "a", "t">>,
    <<"t", "h", "o", "s", "e">>, <<"t", "h", "e", "s", "e">>, <<"c", "a", "n">>,
    <<"w", "i", "l", "l">>, <<"j", "u", "s", "t">>, <<"t", "h", "a", "n">>,
    <<"t", "h", "e", "n">>, <<"b", "u", "t">>, <<"s", "o">>, <<"i", "f">>,
    <<"o", "u", "t">>, <<"n", "o", "t">>, <<"n", "o">>, <<"w", "e">>, <<"y", "o", "u">>,
    <<"o", "u", "r">>, <<"t", "h", "e", "i", "r">>, <<"t", "h", "e", "y">>,
    <<"t", "h", "e", "m">>, <<"h", "e">>, <<"s", "h", "e">>, <<"h", "i", "s">>,
    <<"h", "e", "r">>, <<"i", "t", "s">>, <<"i">>, <<"m", "e">>, <<"m", "y">>
}

\* line 66
text_utils_tokenize_words(text) == FindAllWords(Lower(text))

\* lines 79-85
text_utils_compute_readability_band(word_count) ==
    IF word_count < 60 THEN <<"v", "e", "r", "y", " ", "s", "h", "o", "r", "t">>
    ELSE IF word_count < 160 THEN <<"g", "o", "o", "d", " ", "l", "e", "n", "g", "t", "h">>
    ELSE IF word_count < 300 THEN <<"l", "o", "n", "g">>
    ELSE <<"v", "e", "r", "y", " ", "l", "o", "n", "g">>

\* lines 98-102
text_utils_compute_readability_band_stage1(word_count) ==
    IF word_count < 80 THEN <<"v", "e", "r", "y", "_", "s", "h", "o", "r", "t">>
    ELSE IF word_count < 220 THEN <<"g", "o", "o", "d">>
    ELSE <<"l", "o", "n", "g">>

\* the key with the length ascending
text_utils_KeyBefore_ShortestFirst(kept, a, b) ==
    LET fa == Cardinality({i \in 1..Len(kept) : kept[i] = a})
        fb == Cardinality({i \in 1..Len(kept) : kept[i] = b})
    IN  \/ fa > fb
        \/ fa = fb /\ Len(a) < Len(b)
        \/ fa = fb /\ Len(a) = Len(b) /\ StrLess(a, b)

\* lines 138-141: the key (-item[1], -len(item[0]), item[0]) of a sorts before that of b,
\* where item[1] counts the occurrences among the kept words
text_utils_KeyBefore(kept, a, b) ==
    LET fa == Cardinality({i \in 1..Len(kept) : kept[i] = a})
        fb == Cardinality({i \in 1..Len(kept) : kept[i] = b})
    IN  \/ fa > fb
        \/ fa = fb /\ Len(a) > Len(b)
        \/ fa = fb /\ Len(a) = Len(b) /\ StrLess(a, b)

\* sorted() over the keys of freq: two different words never have equal keys, so the
\* result is the words in increasing key order, the smallest taken first
RECURSIVE text_utils_Sorted(_, _)
text_utils_Sorted(kept, keys) ==
    IF keys = {} THEN <<>>
    ELSE LET first == CHOOSE a \in keys :
                        \A b \in keys \ {a} : text_utils_KeyBefore(kept, a, b)
         IN  <<first>> \o text_utils_Sorted(kept, keys \ {first})

\* lines 129-143
text_utils_extract_keywords(text, limit) ==
    LET words == text_utils_tokenize_words(text)
        kept == SelectSeq(words, LAMBDA word : ~(Len(word) <= 3 \/ word \in text_utils_STOPWORDS))
        sorted_words == text_utils_Sorted(kept, {kept[i] : i \in 1..Len(kept)})
    IN  Prefix(sorted_words, limit)

(***************************************************************************)
(* Keys and fixed strings of the documents                                 *)
(***************************************************************************)
k_preset == <<"p", "r", "e", "s", "e", "t">>
k_headline == <<"h", "e", "a", "d", "l", "i", "n", "e">>
k_subheadline == <<"s", "u", "b", "h", "e", "a", "d", "l", "i", "n", "e">>
k_body == <<"b", "o", "d", "y">>
k_key_points == <<"k", "e", "y", "_", "p", "o", "i", "n", "t", "s">>
k_quote == <<"q", "u", "o", "t", "e">>
k_quote_by == <<"q", "u", "o", "t", "e", "_", "b", "y">>
k_social_caption == <<"s", "o", "c", "i", "a", "l", "_", "c", "a", "p", "t", "i", "o", "n">>
k_cta == <<"c", "t", "a">>
k_audience == <<"a", "u", "d", "i", "e", "n", "c", "e">>
k_tone == <<"t", "o", "n", "e">>
k_length == <<"l", "e", "n", "g", "t", "h">>
k_sections == <<"s", "e", "c", "t", "i", "o", "n", "s">>
k_meta == <<"m", "e", "t", "a">>
k_source == <<"s", "o", "u", "r", "c", "e">>
k_error == <<"e", "r", "r", "o", "r">>
k_message == <<"m", "e", "s", "s", "a", "g", "e">>
k_id == <<"i", "d">>
k_heading == <<"h", "e", "a", "d", "i", "n", "g">>
k_word_count == <<"w", "o", "r", "d", "_", "c", "o", "u", "n", "t">>
k_readability_band == <<"r", "e", "a", "d", "a", "b", "i", "l", "i", "t", "y", "_", "b", "a", "n", "d">>
k_keywords == <<"k", "e", "y", "w", "o", "r", "d", "s">>

EmptyStr == PyStr(<<>>)
ContentPending == <<"C", "o", "n", "t", "e", "n", "t", " ", "p", "e", "n", "d", "i", "n", "g", ".">>
DefaultCta == <<"F", "o", "l", "l", "o", "w", " ", "f", "o", "r", " ", "t", "h", "e", " ", "f",
      "u", "l", "l", " ", "u", "p", "d", "a", "t", "e", " ", "s", "o", "o", "n", ".">>
Ellipsis == <<".", ".", ".">>
\* the backquote character U+0060 (the lexer of the tools accepts none inside a string)
Backquote == "<backquote>"
Fence == <<Backquote, Backquote, Backquote>>
JsonFence == Fence \o <<"j", "s", "o", "n">>
ParagraphBreak == <<"\n", "\n">>

(***************************************************************************)
(* Schema Normalizer (src/app.py 175-202)                                  *)
(***************************************************************************)
\* the filter without the test for whitespace-only elements
KeepElement_TruthyOnly(p) == Truthy(p)

\* the condition 'if p and str(p).strip()' of the two comprehensions
KeepElement(p) == Truthy(p) /\ Strip(Str(p)) # <<>>

\* a bare str iterated as it is, character by character
CleanList_NoWrap(v) ==
    LET seq == Iterate(v) IN
    IF seq.raised THEN Raised
    ELSE LET kept == SelectSeq(seq.val, KeepElement) IN
         IF \E i \in 1..Len(kept) : ~IsStr(kept[i]) THEN Raised
         ELSE Returned(PyList([i \in 1..Len(kept) |-> PyStr(Strip(kept[i].s))]))

\* a non-string value of a flat field dropped instead of stringified
FlatField_StringsOnly(value) ==
    IF IsStr(value) THEN PyStr(Strip(value.s)) ELSE EmptyStr

\* lines 188-191 and 193-196: wrap a bare str, iterate, filter, strip each kept element;
\* raises when the value is not iterable or a kept element has no strip()
CleanList(v) ==
    LET seq == IF IsStr(v) THEN Returned(<<v>>) ELSE Iterate(v) IN
    IF seq.raised THEN Raised
    ELSE LET kept == SelectSeq(seq.val, KeepElement) IN
         IF \E i \in 1..Len(kept) : ~IsStr(kept[i]) THEN Raised
         ELSE Returned(PyList([i \in 1..Len(kept) |-> PyStr(Strip(kept[i].s))]))

\* line 200
FlatField(value) ==
    IF IsStr(value) THEN PyStr(Strip(value.s))
    ELSE IF value.t # "None" THEN PyStr(Str(value))
    ELSE EmptyStr

FlatOf(payload, key) == FlatField(Get(payload, key, EmptyStr))

\* the preset taken from the payload when it holds one: payload.get("preset", preset)
normalize_structured_content_PayloadPreset(payload, preset) ==
    IF ~IsDict(payload) THEN Raised
    ELSE LET body == CleanList(Get(payload, k_body, PyList(<<>>)))
             key_points == CleanList(Get(payload, k_key_points, PyList(<<>>)))
         IN  IF body.raised \/ key_points.raised THEN Raised
             ELSE Returned(PyDict(<<
                    KV(k_preset, Get(payload, k_preset, preset)),
                    KV(k_headline, FlatOf(payload, k_headline)),
                    KV(k_subheadline, FlatOf(payload, k_subheadline)),
                    KV(k_body, body.val),
                    KV(k_key_points, key_points.val),
                    KV(k_quote, FlatOf(payload, k_quote)),
                    KV(k_quote_by, FlatOf(payload, k_quote_by)),
                    KV(k_social_caption, FlatOf(payload, k_social_caption)),
                    KV(k_cta, FlatOf(payload, k_cta))>>))

normalize_structured_content(payload, preset) ==
    IF ~IsDict(payload) THEN Raised
    ELSE LET body == CleanList(Get(payload, k_body, PyList(<<>>)))
             key_points == CleanList(Get(payload, k_key_points, PyList(<<>>)))
         IN  IF body.raised \/ key_points.raised THEN Raised
             ELSE Returned(PyDict(<<
                    KV(k_preset, preset),
                    KV(k_headline, FlatOf(payload, k_headline)),
                    KV(k_subheadline, FlatOf(payload, k_subheadline)),
                    KV(k_body, body.val),
                    KV(k_key_points, key_points.val),
                    KV(k_quote, FlatOf(payload, k_quote)),
                    KV(k_quote_by, FlatOf(payload, k_quote_by)),
                    KV(k_social_caption, FlatOf(payload, k_social_caption)),
                    KV(k_cta, FlatOf(payload, k_cta))>>))

(***************************************************************************)
(* Stub Synthesizer, legacy (src/app.py 205-228)                           *)
(***************************************************************************)
SubheadlineBudget == 120
CaptionBudget == 140
StubParagraphs == 3

NonBlank(p) == Strip(p) # <<>>

\* the paragraphs taken at every newline instead of at blank lines
Paragraphs_SingleNewline(text) ==
    LET parts == SelectSeq(Split(text, <<"\n">>), NonBlank)
    IN  [i \in 1..Len(parts) |-> Strip(parts[i])]

\* [p.strip() for p in text.split("\n\n") if p.strip()]
Paragraphs(text) ==
    LET parts == SelectSeq(Split(text, ParagraphBreak), NonBlank)
    IN  [i \in 1..Len(parts) |-> Strip(parts[i])]

\* lines 206-211
StubParagraphsOf(raw_text) ==
    LET cleaned == Strip(raw_text)
        paragraphs == Paragraphs(cleaned)
    IN  IF paragraphs = <<>> /\ cleaned # <<>> THEN <<cleaned>>
        ELSE IF paragraphs = <<>> THEN <<ContentPending>>
        ELSE paragraphs

StrList(seq) == PyList([i \in 1..Len(seq) |-> PyStr(seq[i])])

stub_structured_content(raw_text, preset) ==
    LET paragraphs == StubParagraphsOf(raw_text)
        headline == Title(Replace(preset.s, "-", " ")) \o <<" ", "u", "p", "d", "a", "t", "e">>
        subheadline_seed == paragraphs[1]
        subheadline == Prefix(subheadline_seed, SubheadlineBudget)
                        \o (IF Len(subheadline_seed) > SubheadlineBudget THEN Ellipsis ELSE <<>>)
        content == PyDict(<<
            KV(k_preset, preset),
            KV(k_headline, PyStr(headline)),
            KV(k_subheadline, PyStr(subheadline)),
            KV(k_body, StrList(Prefix(paragraphs, StubParagraphs))),
            KV(k_key_points, StrList(Prefix(paragraphs, StubParagraphs))),
            KV(k_quote, EmptyStr),
            KV(k_quote_by, EmptyStr),
            KV(k_social_caption, PyStr(Prefix(subheadline_seed, CaptionBudget))),
            KV(k_cta, PyStr(DefaultCta))>>)
    IN  normalize_structured_content(content, preset)

(***************************************************************************)
(* Response Parser (src/app.py 231-249, 298-326)                           *)
(***************************************************************************)
\* lines 232-242 and 299-309: the text handed to json.loads
\* the first fence taken as the opening one, tagged or not
ExtractJson_FirstFence(model_output) ==
    LET cleaned == Strip(model_output) IN
    IF Contains(cleaned, Fence)
    THEN SplitOnce(SplitOnce(cleaned, Fence)[2], Fence)[1]
    ELSE cleaned

ExtractJson(model_output) ==
    LET cleaned == Strip(model_output) IN
    IF Contains(cleaned, JsonFence)
    THEN SplitOnce(SplitOnce(cleaned, JsonFence)[2], Fence)[1]
    ELSE IF Contains(cleaned, Fence)
    THEN SplitOnce(SplitOnce(cleaned, Fence)[2], Fence)[1]
    ELSE cleaned

\* the decode alone, as if the normalizer were applied outside the try block
LegacyParseSucceeds_Unguarded(model_output, preset) ==
    LET decoded == JsonLoads(ExtractJson(model_output)) IN
    decoded.ok /\ IsDict(decoded.val)

\* whether the try block of parse_structured_response completes (lines 245-246)
LegacyParseSucceeds(model_output, preset) ==
    LET parsed == JsonLoads(ExtractJson(model_output)) IN
    parsed.ok /\ ~normalize_structured_content(parsed.val, preset).raised

\* the fallback built from the model output instead of the raw text
parse_structured_response_StubOfOutput(model_output, preset, raw_text) ==
    IF LegacyParseSucceeds(model_output, preset)
    THEN normalize_structured_content(JsonLoads(ExtractJson(model_output)).val, preset)
    ELSE stub_structured_content(model_output, preset)

parse_structured_response(model_output, preset, raw_text) ==
    IF LegacyParseSucceeds(model_output, preset)
    THEN normalize_structured_content(JsonLoads(ExtractJson(model_output)).val, preset)
    ELSE stub_structured_content(raw_text, preset)

(***************************************************************************)
(* Stub Synthesizer, stage 1 (src/app.py 258-295)                          *)
(***************************************************************************)
Stage1SubheadlineBudget == 140
Stage1CaptionBudget == 180
Stage1KeyPointBudget == 120
Stage1KeyPoints == 3
Stage1Keywords == 8

SourceStub == <<"s", "t", "u", "b">>
SourceGemini == <<"g", "e", "m", "i", "n", "i">>

\* lines 260-262
\* the paragraphs without the placeholder of an empty text
Stage1Paragraphs_NoPlaceholder(raw_text) == Paragraphs(Strip(raw_text))

Stage1Paragraphs(raw_text) ==
    LET paragraphs == Paragraphs(Strip(raw_text))
    IN  IF paragraphs = <<>> THEN <<ContentPending>> ELSE paragraphs

\* the sections capped like the legacy stub's paragraphs
Stage1Sections_FirstThree(raw_text) ==
    LET paragraphs == Prefix(Stage1Paragraphs(raw_text), Stage1KeyPoints) IN
    [idx \in 1..Len(paragraphs) |->
        PyDict(<<KV(k_id, PyStr(<<"s", "e", "c", "-">> \o IntToStr(idx))),
                 KV(k_heading, PyStr(<<"S", "e", "c", "t", "i", "o", "n", " ">> \o IntToStr(idx))),
                 KV(k_body, PyStr(paragraphs[idx]))>>)]

\* lines 264-272
Stage1Sections(raw_text) ==
    LET paragraphs == Stage1Paragraphs(raw_text) IN
    [idx \in 1..Len(paragraphs) |->
        PyDict(<<KV(k_id, PyStr(<<"s", "e", "c", "-">> \o IntToStr(idx))),
                 KV(k_heading, PyStr(<<"S", "e", "c", "t", "i", "o", "n", " ">> \o IntToStr(idx))),
                 KV(k_body, PyStr(paragraphs[idx]))>>)]

\* the meta computed from the bodies of the sections instead of the raw text
Stage1Meta_FromSections(raw_text) ==
    LET text == Join(Stage1Paragraphs(raw_text), ParagraphBreak)
        tokens == tokenize_words(text)
    IN  PyDict(<<KV(k_word_count, PyInt(Len(tokens))),
                 KV(k_readability_band, PyStr(compute_readability_band_stage1(Len(tokens)))),
                 KV(k_keywords, StrList(extract_keywords(text, Stage1Keywords)))>>)

\* lines 274-279
Stage1Meta(raw_text) ==
    LET tokens == tokenize_words(raw_text) IN
    PyDict(<<KV(k_word_count, PyInt(Len(tokens))),
             KV(k_readability_band, PyStr(compute_readability_band_stage1(Len(tokens)))),
             KV(k_keywords, StrList(extract_keywords(raw_text, Stage1Keywords)))>>)

build_stage1_stub(raw_text, preset, audience, tone, length) ==
    LET sections == Stage1Sections(raw_text)
        first == Prefix(sections, Stage1KeyPoints)
    IN  PyDict(<<
            KV(k_preset, preset),
            KV(k_audience, audience),
            KV(k_tone, tone),
            KV(k_length, length),
            KV(k_headline, IF sections # <<>> THEN Get(sections[1], k_heading, PyNone)
                           ELSE EmptyStr),
            KV(k_subheadline,
               IF sections # <<>>
               THEN PyStr(Prefix(Get(sections[1], k_body, PyNone).s, Stage1SubheadlineBudget))
               ELSE EmptyStr),
            KV(k_sections, PyList(sections)),
            KV(k_quote, EmptyStr),
            KV(k_quote_by, EmptyStr),
            KV(k_key_points,
               PyList([i \in 1..Len(first) |->
                          PyStr(Prefix(Get(first[i], k_body, PyNone).s, Stage1KeyPointBudget))])),
            KV(k_social_caption,
               IF sections # <<>>
               THEN PyStr(Prefix(Get(sections[1], k_body, PyNone).s, Stage1CaptionBudget))
               ELSE EmptyStr),
            KV(k_meta, Stage1Meta(raw_text)),
            KV(k_source, PyStr(SourceStub))>>)

(***************************************************************************)
(* Response Parser, stage 1 (src/app.py 298-326)                           *)
(***************************************************************************)
\* the setdefault calls replaced by assignments: the request's values and the empty
\* defaults overwrite what the decoded object holds
Stage1Defaults_Overwrite(parsed, preset, audience, tone, length) ==
    SetItem(SetItem(SetItem(SetItem(SetItem(SetItem(SetItem(parsed,
        k_preset, preset), k_audience, audience), k_tone, tone), k_length, length),
        k_sections, PyList(<<>>)), k_key_points, PyList(<<>>)), k_meta, PyDict(<<>>))

\* lines 314-320: the setdefault calls, in order
Stage1Defaults(parsed, preset, audience, tone, length) ==
    SetDefault(SetDefault(SetDefault(SetDefault(SetDefault(SetDefault(SetDefault(parsed,
        k_preset, preset), k_audience, audience), k_tone, tone), k_length, length),
        k_sections, PyList(<<>>)), k_key_points, PyList(<<>>)), k_meta, PyDict(<<>>))

\* lines 321-322
WrapSections(parsed) ==
    IF IsDict(Get(parsed, k_sections, PyNone))
    THEN SetItem(parsed, k_sections, PyList(<<Get(parsed, k_sections, PyNone)>>))
    ELSE parsed

\* whether the try block of parse_stage1_response completes: json.loads returned and
\* the decoded value has setdefault (it is a dict)
Stage1ParseSucceeds(model_output) ==
    LET parsed == JsonLoads(ExtractJson(model_output)) IN parsed.ok /\ IsDict(parsed.val)

parse_stage1_response(model_output, preset, audience, tone, length, raw_text) ==
    IF Stage1ParseSucceeds(model_output)
    THEN WrapSections(Stage1Defaults(JsonLoads(ExtractJson(model_output)).val,
                                     preset, audience, tone, length))
    ELSE build_stage1_stub(raw_text, preset, audience, tone, length)

(***************************************************************************)
(* Rewrite handlers (src/app.py 577-613, 631-659; src/backend/main.py      *)
(* 225-282).  A response is [status, content].                             *)
(***************************************************************************)
DefaultStatus == 200
BadGateway == 502

ErrorCode == <<"g", "e", "m", "i", "n", "i", "_", "r", "e", "w", "r", "i", "t", "e", "_", "f",
      "a", "i", "l", "e", "d">>
NotConfiguredMessage == <<"G", "e", "m", "i", "n", "i", " ", "n", "o", "t", " ", "c", "o", "n", "f", "i",
      "g", "u", "r", "e", "d", ";", " ", "r", "e", "t", "u", "r", "n", "i", "n", "g",
      " ", "d", "e", "t", "e", "r", "m", "i", "n", "i", "s", "t", "i", "c", " ", "s",
      "t", "u", "b", ".">>
FailedMessage == <<"G", "e", "m", "i", "n", "i", " ", "r", "e", "w", "r", "i", "t", "e", " ", "f",
      "a", "i", "l", "e", "d", ";", " ", "r", "e", "t", "u", "r", "n", "i", "n", "g",
      " ", "f", "a", "l", "l", "b", "a", "c", "k", " ", "c", "o", "n", "t", "e", "n",
      "t", ".">>
HelpersMessage == <<"A", "p", "p", " ", "h", "e", "l", "p", "e", "r", "s", " ", "n", "o", "t", " ",
      "a", "v", "a", "i", "l", "a", "b", "l", "e", ".", " ", "U", "s", "i", "n", "g",
      " ", "s", "t", "u", "b", " ", "r", "e", "s", "p", "o", "n", "s", "e", ".">>
DefaultPreset == <<"t", "r", "a", "i", "n", "e", "r", "-", "u", "p", "d", "a", "t", "e">>
SamplePrefix == 200

Response(status, content) == [status |-> status, content |-> content]

\* app.py line 580: (req.preset or "trainer-update").strip().lower()
EditPreset(req_preset) ==
    PyStr(Lower(Strip(IF req_preset # <<>> THEN req_preset ELSE DefaultPreset)))

\* app.py lines 590-596
EditNotConfigured(raw_text, preset) ==
    Response(DefaultStatus,
        Merge(stub_structured_content(raw_text, preset).val,
              PyDict(<<KV(k_source, PyStr(SourceStub)),
                       KV(k_message, PyStr(NotConfiguredMessage))>>)))

\* the fallback without the error code
EditOnException_NoErrorCode(raw_text, preset) ==
    Response(BadGateway,
        Merge(stub_structured_content(raw_text, preset).val,
              PyDict(<<KV(k_source, PyStr(SourceStub)),
                       KV(k_message, PyStr(FailedMessage))>>)))

\* app.py lines 602-613
EditOnException(raw_text, preset) ==
    Response(BadGateway,
        Merge(stub_structured_content(raw_text, preset).val,
              PyDict(<<KV(k_source, PyStr(SourceStub)),
                       KV(k_error, PyStr(ErrorCode)),
                       KV(k_message, PyStr(FailedMessage))>>)))

\* a parse failure answered as a provider failure
EditOnOutput_FailOnParse(model_output, preset, raw_text) ==
    IF LegacyParseSucceeds(model_output, preset)
    THEN Response(DefaultStatus,
            Merge(parse_structured_response(model_output, preset, raw_text).val,
                  PyDict(<<KV(k_source, PyStr(SourceGemini))>>)))
    ELSE EditOnException(raw_text, preset)

\* app.py lines 600-601; an exception of the parser would reach the except block
EditOnOutput(model_output, preset, raw_text) ==
    LET structured == parse_structured_response(model_output, preset, raw_text) IN
    IF structured.raised THEN EditOnException(raw_text, preset)
    ELSE Response(DefaultStatus,
            Merge(structured.val, PyDict(<<KV(k_source, PyStr(SourceGemini))>>)))

\* app.py lines 646-647
Stage1NotConfigured(raw_text, preset, audience, tone, length) ==
    Response(DefaultStatus, build_stage1_stub(raw_text, preset, audience, tone, length))

\* app.py lines 651-653 and main.py lines 270-272
Stage1OnOutput(model_output, preset, audience, tone, length, raw_text) ==
    Response(DefaultStatus,
        SetItem(parse_stage1_response(model_output, preset, audience, tone, length, raw_text),
                k_source, PyStr(SourceGemini)))

\* app.py lines 654-659
Stage1OnException(raw_text, preset, audience, tone, length) ==
    Response(BadGateway,
        SetItem(SetItem(build_stage1_stub(raw_text, preset, audience, tone, length),
                        k_error, PyStr(ErrorCode)),
                k_message, PyStr(FailedMessage)))

\* s.split(): the maximal runs of characters that are not whitespace
WordCount(s) ==
    Cardinality({i \in 1..Len(s) :
        s[i] \notin Whitespace /\ (i = 1 \/ s[i - 1] \in Whitespace)})

\* main.py lines 232-253
MainHelpersUnavailable(raw_text, preset, audience, tone, length) ==
    Response(DefaultStatus, PyDict(<<
        KV(k_preset, preset),
        KV(k_audience, audience),
        KV(k_tone, tone),
        KV(k_length, length),
        KV(k_headline, PyStr(<<"S", "a", "m", "p", "l", "e", " ", "H", "e", "a", "d", "l", "i", "n", "e">>)),
        KV(k_subheadline, PyStr(<<"S", "a", "m", "p", "l", "e", " ", "s", "u", "b", "h", "e", "a", "d", "l", "i",
      "n", "e", " ", "f", "o", "r", " ", "t", "e", "s", "t", "i", "n", "g">>)),
        KV(k_sections, PyList(<<PyDict(<<KV(k_id, PyStr(<<"s", "e", "c", "-", "1">>)),
                                         KV(k_heading, PyStr(<<"I", "n", "t", "r", "o", "d", "u", "c", "t", "i", "o", "n">>)),
                                         KV(k_body, PyStr(Prefix(raw_text, SamplePrefix)))>>)>>)),
        KV(k_quote, EmptyStr),
        KV(k_quote_by, EmptyStr),
        KV(k_key_points, PyList(<<PyStr(<<"P", "o", "i", "n", "t", " ", "1">>), PyStr(<<"P", "o", "i", "n", "t", " ", "2">>)>>)),
        KV(k_social_caption, PyStr(<<"E", "v", "o", "l", "u", "t", "i", "o", "n", " ", "S", "t", "a", "b", "l", "e",
      "s", " ", "u", "p", "d", "a", "t", "e">>)),
        KV(k_meta, PyDict(<<KV(k_word_count, PyInt(WordCount(raw_text))),
                            KV(k_readability_band, PyStr(<<"g", "o", "o", "d">>)),
                            KV(k_keywords, PyList(<<>>))>>)),
        KV(k_source, PyStr(SourceStub)),
        KV(k_message, PyStr(HelpersMessage))>>))

\* main.py lines 263-267
MainNotConfigured(raw_text, preset, audience, tone, length) ==
    Response(DefaultStatus,
        SetItem(SetItem(build_stage1_stub(raw_text, preset, audience, tone, length),
                        k_source, PyStr(SourceStub)),
                k_message, PyStr(NotConfiguredMessage)))

\* main.py lines 274-280; exc is str(e)
MainOnException(raw_text, preset, audience, tone, length, exc) ==
    Response(BadGateway,
        SetItem(SetItem(build_stage1_stub(raw_text, preset, audience, tone, length),
                        k_error, PyStr(ErrorCode)),
                k_message,
                PyStr(<<"G", "e", "m", "i", "n", "i", " ", "r", "e", "w", "r", "i", "t", "e", " ", "f",
      "a", "i", "l", "e", "d", ":", " ">> \o exc \o <<".", " ", "R", "e", "t", "u", "r", "n", "i", "n", "g", " ", "f", "a", "l", "l",
      "b", "a", "c", "k", ".">>)))

(***************************************************************************)
(* Inputs: the request fields, the provider's outputs and the payloads     *)
(* the functions are applied to                                            *)
(***************************************************************************)
\* the request slots: the handlers share no mutable state, one request is in flight
Requests == {"r1"}

\* a raw text is up to MaxParagraphs paragraphs of the pool joined by blank lines, or a
\* one-paragraph text with surrounding whitespace
MaxParagraphs == 2

ParagraphPool == {
    <<"T", "r", "a", "i", "n", "e", "r", " ", "p", "r", "a", "i", "s", "e", "d", " ",
      "t", "h", "e", " ", "c", "o", "l", "t", "'", "s", " ", "r", "e", "c", "o", "v",
      "e", "r", "y", ".">>,
    <<"R", "e", "s", "u", "l", "t", "s", " ", "s", "h", "o", "w", " ", "s", "t", "r",
      "o", "n", "g", " ", "l", "a", "t", "e", " ", "p", "a", "c", "e", ".">>
}

RECURSIVE ParagraphSeqs(_)
ParagraphSeqs(n) ==
    IF n = 0 THEN {<<>>}
    ELSE ParagraphSeqs(n - 1)
            \cup {Append(s, p) : s \in ParagraphSeqs(n - 1), p \in ParagraphPool}

RawTexts ==
    {Join(s, ParagraphBreak) : s \in ParagraphSeqs(MaxParagraphs)}
        \cup {<<" ", " ", "G", "o", "o", "d", " ", "r", "u", "n", " ", "t", "o", "d", "a", "y",
      ".", "\n">>, <<" ", "\n", "\n", " ">>}

\* four paragraphs: a single newline inside the first, three newlines before the third,
\* a whitespace-only piece before the fourth
ManyParagraphs == <<"O", "n", "e", ".", "\n", "U", "n", "o", ".", "\n", "\n", "T", "w", "o", ".", "\n",
      "\n", "\n", "T", "h", "r", "e", "e", ".", "\n", "\n", " ", "\n", "\n", "F", "o",
      "u", "r", ".">>

\* eleven distinct words longer than three letters, none of them a stopword
ManyKeywords ==
    <<"a", "l", "p", "h", "a", " ", "b", "r", "a", "v", "o", " ", "c", "h", "a", "r",
      "l", "i", "e", " ", "d", "e", "l", "t", "a", " ", "e", "c", "h", "o", " ", "f",
      "o", "x", "t", "r", "o", "t", " ", "g", "o", "l", "f", " ", "h", "o", "t", "e",
      "l", " ", "i", "n", "d", "i", "a", " ", "j", "u", "l", "i", "e", "t", " ", "k",
      "i", "l", "o">>

\* a paragraph of n characters, alternately "a" and "b", with a space at each index in gaps
LongParagraph(n, gaps) ==
    [i \in 1..n |-> IF i \in gaps THEN " " ELSE IF i % 2 = 1 THEN "a" ELSE "b"]

\* raw texts whose first paragraph is as long as, or longer than, the budgets of the
\* legacy stub, some with a space where a budget ends
LongTexts == {
    LongParagraph(SubheadlineBudget, {}),
    LongParagraph(SubheadlineBudget + 1, {}) \o ParagraphBreak \o <<"T", "w", "o", ".">>,
    LongParagraph(CaptionBudget, {}),
    LongParagraph(CaptionBudget + 1, {}),
    LongParagraph(CaptionBudget + 1, {CaptionBudget}),
    LongParagraph(CaptionBudget + 5, {SubheadlineBudget, CaptionBudget - 1, CaptionBudget})
}

StubTexts == {ManyParagraphs, ManyKeywords}

\* the preset field of a legacy request: "trainer-update", "" and " Pre-Race "
LegacyPresets == {<<"t", "r", "a", "i", "n", "e", "r", "-", "u", "p", "d", "a", "t", "e">>, <<>>, <<" ", "P", "r", "e", "-", "R", "a", "c", "e", " ">>}

Stage1Presets == {PyStr(<<"p", "r", "e", "_", "r", "a", "c", "e">>)}
Audiences == {PyStr(<<"o", "w", "n", "e", "r">>)}
Tones == {PyStr(<<"f", "o", "r", "m", "a", "l">>)}
Lengths == {PyStr(<<"s", "h", "o", "r", "t">>)}

\* str(e) of the exception the provider call raised
ExceptionTexts == {<<>>, <<"q", "u", "o", "t", "a", " ", "e", "x", "c", "e", "e", "d", "e", "d">>}

\* {}
OutEmptyObject == <<"{", "}">>
\* not json at all
OutProse == <<"n", "o", "t", " ", "j", "s", "o", "n", " ", "a", "t", " ", "a", "l", "l">>
\* a json-tagged fenced block holding {"headline":"X"}
OutFencedJson == JsonFence \o <<"\n", "{", "\"", "h", "e", "a", "d", "l", "i", "n", "e", "\"", ":", "\"", "X",
      "\"", "}", "\n">> \o Fence
\* prose, then an untagged fenced block holding {"headline": "X"}
OutFencedPlain == <<"H", "e", "r", "e", " ", "y", "o", "u", " ", "g", "o", ":", "\n">> \o Fence \o <<"\n", "{", "\"", "h", "e", "a", "d", "l", "i", "n", "e", "\"", ":", " ", "\"", "X",
      "\"", "}", "\n">> \o Fence
\* [1]
OutArray == <<"[", "1", "]">>
\* null
OutNull == <<"n", "u", "l", "l">>
\* {"body":[1]}
OutBodyNumbers == <<"{", "\"", "b", "o", "d", "y", "\"", ":", "[", "1", "]", "}">>
\* {"body":null}
OutBodyNull == <<"{", "\"", "b", "o", "d", "y", "\"", ":", "n", "u", "l", "l", "}">>
\* {"headline":" H ","body":"one","key_points":["a"," "],"cta":5}
OutLegacy == <<"{", "\"", "h", "e", "a", "d", "l", "i", "n", "e", "\"", ":", "\"", " ", "H", " ",
      "\"", ",", "\"", "b", "o", "d", "y", "\"", ":", "\"", "o", "n", "e", "\"", ",",
      "\"", "k", "e", "y", "_", "p", "o", "i", "n", "t", "s", "\"", ":", "[", "\"", "a",
      "\"", ",", "\"", " ", "\"", "]", ",", "\"", "c", "t", "a", "\"", ":", "5", "}">>
\* a complete stage-1 document
OutStage1 ==
    <<"{", "\"", "h", "e", "a", "d", "l", "i", "n", "e", "\"", ":", "\"", "H", "\"", ",",
      "\"", "s", "u", "b", "h", "e", "a", "d", "l", "i", "n", "e", "\"", ":", "\"", "S",
      "\"", ",", "\"", "s", "e", "c", "t", "i", "o", "n", "s", "\"", ":", "[", "{", "\"",
      "i", "d", "\"", ":", "\"", "s", "e", "c", "-", "1", "\"", ",", "\"", "h", "e", "a",
      "d", "i", "n", "g", "\"", ":", "\"", "W", "h", "y", "\"", ",", "\"", "b", "o", "d",
      "y", "\"", ":", "\"", "B", "\"", "}", "]", ",">>
    \o <<"\"", "q", "u", "o", "t", "e", "\"", ":", "\"", "\"", ",", "\"", "q", "u", "o",
      "t", "e", "_", "b", "y", "\"", ":", "\"", "\"", ",", "\"", "k", "e", "y", "_", "p",
      "o", "i", "n", "t", "s", "\"", ":", "[", "\"", "k", "\"", "]", ",", "\"", "s", "o",
      "c", "i", "a", "l", "_", "c", "a", "p", "t", "i", "o", "n", "\"", ":", "\"", "C",
      "\"", ",", "\"", "m", "e", "t", "a", "\"", ":", "{", "}", "}">>
\* {"sections":{"id":"a","heading":"h","body":"b"},"source":"stub"}
OutSingleSection ==
    <<"{", "\"", "s", "e", "c", "t", "i", "o", "n", "s", "\"", ":", "{", "\"", "i", "d",
      "\"", ":", "\"", "a", "\"", ",", "\"", "h", "e", "a", "d", "i", "n", "g", "\"",
      ":", "\"", "h", "\"", ",", "\"", "b", "o", "d", "y", "\"", ":", "\"", "b", "\"",
      "}", ",", "\"", "s", "o", "u", "r", "c", "e", "\"", ":", "\"", "s", "t", "u", "b",
      "\"", "}">>
\* {"preset":"post_race","sections":[]}
OutNoSections == <<"{", "\"", "p", "r", "e", "s", "e", "t", "\"", ":", "\"", "p", "o", "s", "t", "_",
      "r", "a", "c", "e", "\"", ",", "\"", "s", "e", "c", "t", "i", "o", "n", "s", "\"",
      ":", "[", "]", "}">>

ModelOutputs == {
    <<>>, OutEmptyObject, OutProse, OutFencedJson, OutFencedPlain, OutArray, OutNull,
    OutBodyNumbers, OutBodyNull, OutLegacy, OutStage1, OutSingleSection, OutNoSections
}

\* an untagged fenced block holding {"headline":"Y"}, then a json-tagged one holding
\* {"headline":"X"}
OutPlainThenJson ==
    Fence \o <<"\n", "{", "\"", "h", "e", "a", "d", "l", "i", "n", "e", "\"", ":", "\"", "Y",
      "\"", "}", "\n">> \o Fence \o <<"\n">>
    \o JsonFence \o <<"\n", "{", "\"", "h", "e", "a", "d", "l", "i", "n", "e", "\"", ":", "\"", "X",
      "\"", "}", "\n">> \o Fence \o <<"\n", "D", "o", "n", "e", ".">>
\* a json-tagged fence that is never closed
OutUnclosedJson == <<"S", "u", "r", "e", ":", " ">> \o JsonFence \o <<"\n", "{", "\"", "h", "e", "a", "d", "l", "i", "n", "e", "\"", ":", "\"", "X",
      "\"", "}", "\n">>
\* two untagged fenced blocks, the second holding an array
OutTwoBlocks ==
    Fence \o <<"{", "\"", "h", "e", "a", "d", "l", "i", "n", "e", "\"", ":", "\"", "X", "\"", "}">> \o Fence \o <<" ", "o", "r", " ">> \o Fence \o <<"[", "1", "]">> \o Fence
\* a single fence in the middle of the text
OutLoneFence == <<"{", "\"", "h", "e", "a", "d", "l", "i", "n", "e", "\"", ":", "\"", "Y", "\"", "}",
      " ">> \o Fence \o <<" ", "{", "\"", "h", "e", "a", "d", "l", "i", "n", "e", "\"", ":", "\"", "X", "\"",
      "}", " ">>

FencedOutputs == {OutPlainThenJson, OutUnclosedJson, OutTwoBlocks, OutLoneFence}

\* {"preset":null,"tone":"warm","key_points":["k"],"meta":{"a":1},"extra":[1]}
OutPartial ==
    <<"{", "\"", "p", "r", "e", "s", "e", "t", "\"", ":", "n", "u", "l", "l", ",", "\"",
      "t", "o", "n", "e", "\"", ":", "\"", "w", "a", "r", "m", "\"", ",", "\"", "k", "e",
      "y", "_", "p", "o", "i", "n", "t", "s", "\"", ":", "[", "\"", "k", "\"", "]", ",",
      "\"", "m", "e", "t", "a", "\"", ":", "{", "\"", "a", "\"", ":", "1", "}", ",",
      "\"", "e", "x", "t", "r", "a", "\"", ":", "[", "1", "]", "}">>

\* "just text"
OutString == <<"\"", "j", "u", "s", "t", " ", "t", "e", "x", "t", "\"">>

\* 7
OutNumber == <<"7">>

\* model outputs that decode: an object holding some of the stage-1 keys, a string and a
\* number
DecodedOutputs == {OutPartial, OutString, OutNumber}

\* values a decoded object may hold under body, key_points or a flat field
ShapeValues == {
    PyNone, PyInt(0), PyInt(7), PyBool(TRUE), EmptyStr, PyStr(<<" ", " ", "h", "i", " ", " ">>), PyStr(<<" ", " ", " ">>),
    PyList(<<>>),
    PyList(<<PyStr(<<"a", " ">>), PyStr(<<" ">>), PyStr(<<"b">>)>>),
    PyList(<<PyInt(1)>>),
    PyList(<<PyNone, PyInt(0), PyStr(<<"x">>)>>),
    PyList(<<PyList(<<PyStr(<<"x">>)>>)>>),
    PyDict(<<KV(<<"k">>, PyInt(1))>>)
}
FlatValues == {PyNone, PyInt(7), PyStr(<<" ", "H", " ">>), PyList(<<PyStr(<<"i", "t", "'", "s">>)>>)}

\* the key is missing
Absent == [t |-> "absent"]

Item(k, v) == IF v = Absent THEN <<>> ELSE <<KV(k, v)>>

\* an optional unknown key, body, key_points and one flat field
Payloads ==
    {PyDict(Item(<<"e", "x", "t", "r", "a">>, e) \o Item(k_body, b) \o Item(k_key_points, kp) \o Item(k_headline, h)) :
        e \in {Absent, PyInt(1)},
        b \in ShapeValues \cup {Absent}, kp \in ShapeValues \cup {Absent},
        h \in FlatValues \cup {Absent}}

\* the six flat fields (line 198) and values of every type for them
FlatKeys == {k_headline, k_subheadline, k_quote, k_quote_by, k_social_caption, k_cta}
FlatShapes == {
    PyNone, PyInt(0), PyInt(7), PyBool(TRUE), PyBool(FALSE), EmptyStr,
    PyStr(<<" ", "H", "i", "\n">>),
    PyList(<<>>),
    PyList(<<PyInt(1), PyStr(<<"a">>)>>),
    PyDict(<<>>)
}

\* the empty mapping, and the mappings of one flat field
FlatPayloads == {PyDict(<<>>)} \cup {PyDict(<<KV(k, v)>>) : k \in FlatKeys, v \in FlatShapes}

\* mappings that hold a preset key of their own
PresetPayloads == {
    PyDict(<<KV(k_preset, PyStr(<<"p", "o", "s", "t", "-", "r", "a", "c", "e">>)),
             KV(k_headline, PyStr(<<" ", "H", " ">>)),
             KV(k_body, PyStr(<<" ", "o", "n", "e", " ">>)),
             KV(k_cta, PyList(<<PyInt(1), PyStr(<<" ", "a", " ">>)>>))>>),
    PyDict(<<KV(k_preset, PyInt(7))>>)
}

(***************************************************************************)
(* State                                                                   *)
(***************************************************************************)
VARIABLES
    GEMINI_AVAILABLE,       \* app.py 44-49: google.generativeai was imported
    GEMINI_API_KEY,         \* app.py 84, service.py 12: the key is set and not empty
    PROJECT_ID,             \* service.py 13: the project id is set and not empty
    APP_HELPERS_AVAILABLE,  \* main.py 54-71: the helpers of app.py were imported
    requests,               \* the rewrite requests in flight, each at its handler's step
    call                    \* the last direct application of a function of the core

config == <<GEMINI_AVAILABLE, GEMINI_API_KEY, PROJECT_ID, APP_HELPERS_AVAILABLE>>
vars == <<GEMINI_AVAILABLE, GEMINI_API_KEY, PROJECT_ID, APP_HELPERS_AVAILABLE, requests, call>>

NoResponse == Response(0, PyNone)
NoCall == [fn |-> "none"]

\* a request slot: pc is "idle", "awaiting" (suspended in 'await generate_with_gemini')
\* or "done"; path records the branch the handler took
RequestState(pc, handler, raw_text, preset, audience, tone, length, path, response) ==
    [pc |-> pc, handler |-> handler, raw_text |-> raw_text, preset |-> preset,
     audience |-> audience, tone |-> tone, length |-> length, path |-> path,
     response |-> response]

Idle == RequestState("idle", "none", <<>>, EmptyStr, EmptyStr, EmptyStr, EmptyStr,
                     "none", NoResponse)

Awaiting(handler, raw_text, preset, audience, tone, length) ==
    RequestState("awaiting", handler, raw_text, preset, audience, tone, length,
                 "none", NoResponse)

Done(q, path, response) ==
    RequestState("done", q.handler, q.raw_text, q.preset, q.audience, q.tone, q.length,
                 path, response)

Init ==
    /\ GEMINI_AVAILABLE \in BOOLEAN
    /\ GEMINI_API_KEY \in BOOLEAN
    /\ PROJECT_ID \in BOOLEAN
    /\ APP_HELPERS_AVAILABLE \in BOOLEAN
    /\ requests = [r \in Requests |-> Idle]
    /\ call = NoCall

\* main.py line 47
MainGeminiAvailable == GEMINI_API_KEY \/ PROJECT_ID

(***************************************************************************)
(* POST /edit/rewrite (src/app.py 577-613)                                 *)
(***************************************************************************)
\* lines 578-599, up to the await
EditRewrite(r, raw_text, req_preset) ==
    /\ requests[r].pc = "idle"
    /\ LET q == Awaiting("edit_rewrite", raw_text, EditPreset(req_preset),
                         EmptyStr, EmptyStr, EmptyStr)
       IN  requests' = [requests EXCEPT ![r] =
                IF ~GEMINI_AVAILABLE \/ ~GEMINI_API_KEY
                THEN Done(q, "not_configured", EditNotConfigured(q.raw_text, q.preset))
                ELSE q]
    /\ UNCHANGED <<config, call>>

\* lines 599-601: the provider returned model_output
EditRewriteReturns(r, model_output) ==
    /\ requests[r].pc = "awaiting"
    /\ requests[r].handler = "edit_rewrite"
    /\ LET q == requests[r] IN
       requests' = [requests EXCEPT ![r] =
            Done(q, IF LegacyParseSucceeds(model_output, q.preset)
                    THEN "parsed" ELSE "parse_failed",
                 EditOnOutput(model_output, q.preset, q.raw_text))]
    /\ UNCHANGED <<config, call>>

\* the handler clears the provider flag when the provider raises, so that later
\* requests take the stub at once
EditRewriteRaises_DisablesProvider(r) ==
    /\ requests[r].pc = "awaiting"
    /\ requests[r].handler = "edit_rewrite"
    /\ LET q == requests[r] IN
       requests' = [requests EXCEPT ![r] =
            Done(q, "provider_raised", EditOnException(q.raw_text, q.preset))]
    /\ GEMINI_AVAILABLE' = FALSE
    /\ UNCHANGED <<GEMINI_API_KEY, PROJECT_ID, APP_HELPERS_AVAILABLE, call>>

\* lines 602-613: the provider call raised
EditRewriteRaises(r) ==
    /\ requests[r].pc = "awaiting"
    /\ requests[r].handler = "edit_rewrite"
    /\ LET q == requests[r] IN
       requests' = [requests EXCEPT ![r] =
            Done(q, "provider_raised", EditOnException(q.raw_text, q.preset))]
    /\ UNCHANGED <<config, call>>

(***************************************************************************)
(* POST /stage1/rewrite (src/app.py 631-659)                               *)
(***************************************************************************)
Stage1Rewrite(r, raw_text, preset, audience, tone, length) ==
    /\ requests[r].pc = "idle"
    /\ LET q == Awaiting("stage1_rewrite", raw_text, preset, audience, tone, length)
       IN  requests' = [requests EXCEPT ![r] =
                IF ~GEMINI_AVAILABLE \/ ~GEMINI_API_KEY
                THEN Done(q, "not_configured",
                          Stage1NotConfigured(raw_text, preset, audience, tone, length))
                ELSE q]
    /\ UNCHANGED <<config, call>>

Stage1RewriteReturns(r, model_output) ==
    /\ requests[r].pc = "awaiting"
    /\ requests[r].handler = "stage1_rewrite"
    /\ LET q == requests[r] IN
       requests' = [requests EXCEPT ![r] =
            Done(q, IF Stage1ParseSucceeds(model_output) THEN "parsed" ELSE "parse_failed",
                 Stage1OnOutput(model_output, q.preset, q.audience, q.tone, q.length,
                                q.raw_text))]
    /\ UNCHANGED <<config, call>>

Stage1RewriteRaises(r) ==
    /\ requests[r].pc = "awaiting"
    /\ requests[r].handler = "stage1_rewrite"
    /\ LET q == requests[r] IN
       requests' = [requests EXCEPT ![r] =
            Done(q, "provider_raised",
                 Stage1OnException(q.raw_text, q.preset, q.audience, q.tone, q.length))]
    /\ UNCHANGED <<config, call>>

(***************************************************************************)
(* POST /api/stage1/rewrite (src/backend/main.py 225-282)                  *)
(***************************************************************************)
MainStage1Rewrite(r, raw_text, preset, audience, tone, length) ==
    /\ requests[r].pc = "idle"
    /\ LET q == Awaiting("main_stage1_rewrite", raw_text, preset, audience, tone, length)
       IN  requests' = [requests EXCEPT ![r] =
                IF ~APP_HELPERS_AVAILABLE
                THEN Done(q, "helpers_unavailable",
                          MainHelpersUnavailable(raw_text, preset, audience, tone, length))
                ELSE IF ~MainGeminiAvailable \/ ~GEMINI_API_KEY
                THEN Done(q, "not_configured",
                          MainNotConfigured(raw_text, preset, audience, tone, length))
                ELSE q]
    /\ UNCHANGED <<config, call>>

\* lines 269-272; generate_with_gemini of app.py returns only when genai was imported
MainStage1RewriteReturns(r, model_output) ==
    /\ requests[r].pc = "awaiting"
    /\ requests[r].handler = "main_stage1_rewrite"
    /\ GEMINI_AVAILABLE
    /\ LET q == requests[r] IN
       requests' = [requests EXCEPT ![r] =
            Done(q, IF Stage1ParseSucceeds(model_output) THEN "parsed" ELSE "parse_failed",
                 Stage1OnOutput(model_output, q.preset, q.audience, q.tone, q.length,
                                q.raw_text))]
    /\ UNCHANGED <<config, call>>

\* lines 274-280
MainStage1RewriteRaises(r, exc) ==
    /\ requests[r].pc = "awaiting"
    /\ requests[r].handler = "main_stage1_rewrite"
    /\ LET q == requests[r] IN
       requests' = [requests EXCEPT ![r] =
            Done(q, "provider_raised",
                 MainOnException(q.raw_text, q.preset, q.audience, q.tone, q.length, exc))]
    /\ UNCHANGED <<config, call>>

(***************************************************************************)
(* POST /edit/analyze and POST /stage1/analyse (src/app.py 561-574,        *)
(* 616-629): no await, the handler runs to its return in one step          *)
(***************************************************************************)
AnalyzeKeywords == 10
k_suggestions == <<"s", "u", "g", "g", "e", "s", "t", "i", "o", "n", "s">>

\* app.py lines 564-574
EditAnalysis(text) ==
    LET tokens == tokenize_words(text) IN
    Response(DefaultStatus,
        PyDict(<<KV(k_word_count, PyInt(Len(tokens))),
                 KV(k_readability_band, PyStr(compute_readability_band(Len(tokens)))),
                 KV(k_keywords, StrList(extract_keywords(text, AnalyzeKeywords)))>>))

\* app.py lines 618-629
Stage1Analysis(text) ==
    LET tokens == tokenize_words(text) IN
    Response(DefaultStatus,
        PyDict(<<KV(k_word_count, PyInt(Len(tokens))),
                 KV(k_readability_band, PyStr(compute_readability_band_stage1(Len(tokens)))),
                 KV(k_keywords, StrList(extract_keywords(text, AnalyzeKeywords))),
                 KV(k_suggestions, PyList(<<>>))>>))

edit_analyze(r, text) ==
    /\ requests[r].pc = "idle"
    /\ requests' = [requests EXCEPT ![r] =
            Done(Awaiting("edit_analyze", text, EmptyStr, EmptyStr, EmptyStr, EmptyStr),
                 "analysed", EditAnalysis(text))]
    /\ UNCHANGED <<config, call>>

stage1_analyse(r, text) ==
    /\ requests[r].pc = "idle"
    /\ requests' = [requests EXCEPT ![r] =
            Done(Awaiting("stage1_analyse", text, EmptyStr, EmptyStr, EmptyStr, EmptyStr),
                 "analysed", Stage1Analysis(text))]
    /\ UNCHANGED <<config, call>>

\* the response is sent and the request is over
Deliver(r) ==
    /\ requests[r].pc = "done"
    /\ requests' = [requests EXCEPT ![r] = Idle]
    /\ UNCHANGED <<config, call>>

Next ==
    \E r \in Requests :
        \/ \E raw_text \in RawTexts, req_preset \in LegacyPresets :
                EditRewrite(r, raw_text, req_preset)
        \/ \E model_output \in ModelOutputs : EditRewriteReturns(r, model_output)
        \/ EditRewriteRaises(r)
        \/ \E raw_text \in RawTexts, preset \in Stage1Presets, audience \in Audiences,
              tone \in Tones, length \in Lengths :
                \/ Stage1Rewrite(r, raw_text, preset, audience, tone, length)
                \/ MainStage1Rewrite(r, raw_text, preset, audience, tone, length)
        \/ \E model_output \in ModelOutputs :
                \/ Stage1RewriteReturns(r, model_output)
                \/ MainStage1RewriteReturns(r, model_output)
        \/ Stage1RewriteRaises(r)
        \/ \E exc \in ExceptionTexts : MainStage1RewriteRaises(r, exc)
        \/ Deliver(r)

Spec == Init /\ [][Next]_vars

(***************************************************************************)
(* Two requests in flight at once: the handlers of two clients interleave  *)
(* at their await points                                                   *)
(***************************************************************************)
PairRequests == {"r1", "r2"}

\* the raw texts, presets and provider outputs of the two clients
PairTexts == ParagraphPool
PairPresets == {DefaultPreset}
PairOutputs == {OutLegacy, OutProse}
PairExceptions == {<<"q", "u", "o", "t", "a", " ", "e", "x", "c", "e", "e", "d", "e", "d">>}

PairInit ==
    /\ GEMINI_AVAILABLE \in BOOLEAN
    /\ GEMINI_API_KEY = TRUE
    /\ PROJECT_ID = FALSE
    /\ APP_HELPERS_AVAILABLE = TRUE
    /\ requests = [r \in PairRequests |-> Idle]
    /\ call = NoCall

PairNext ==
    \E r \in PairRequests :
        \/ \E raw_text \in PairTexts, req_preset \in PairPresets :
                EditRewrite(r, raw_text, req_preset)
        \/ \E model_output \in PairOutputs : EditRewriteReturns(r, model_output)
        \/ EditRewriteRaises(r)
        \/ \E raw_text \in PairTexts, preset \in Stage1Presets, audience \in Audiences,
              tone \in Tones, length \in Lengths :
                Stage1Rewrite(r, raw_text, preset, audience, tone, length)
        \/ \E raw_text \in PairTexts, preset \in Stage1Presets, audience \in Audiences,
              tone \in Tones, length \in Lengths :
                MainStage1Rewrite(r, raw_text, preset, audience, tone, length)
        \/ \E model_output \in PairOutputs : Stage1RewriteReturns(r, model_output)
        \/ \E model_output \in PairOutputs : MainStage1RewriteReturns(r, model_output)
        \/ Stage1RewriteRaises(r)
        \/ \E exc \in PairExceptions : MainStage1RewriteRaises(r, exc)
        \/ \E text \in PairTexts : edit_analyze(r, text)
        \/ \E text \in PairTexts : stage1_analyse(r, text)
        \/ Deliver(r)

PairSpec == PairInit /\ [][PairNext]_vars

(***************************************************************************)
(* Direct applications of the functions of the core: a behaviour applies   *)
(* one function to one choice of arguments                                 *)
(***************************************************************************)
CallNormalize(payload, preset) ==
    /\ call = NoCall
    /\ call' = [fn |-> "normalize_structured_content", payload |-> payload,
                preset |-> preset,
                result |-> normalize_structured_content(payload, preset)]
    /\ UNCHANGED <<config, requests>>

CallStub(raw_text, preset) ==
    /\ call = NoCall
    /\ call' = [fn |-> "stub_structured_content", raw_text |-> raw_text, preset |-> preset,
                result |-> stub_structured_content(raw_text, preset)]
    /\ UNCHANGED <<config, requests>>

CallParse(model_output, preset, raw_text) ==
    /\ call = NoCall
    /\ call' = [fn |-> "parse_structured_response", model_output |-> model_output,
                preset |-> preset, raw_text |-> raw_text,
                cleaned |-> ExtractJson(model_output),
                result |-> parse_structured_response(model_output, preset, raw_text)]
    /\ UNCHANGED <<config, requests>>

CallStage1Stub(raw_text, preset, audience, tone, length) ==
    /\ call = NoCall
    /\ call' = [fn |-> "build_stage1_stub", raw_text |-> raw_text, preset |-> preset,
                audience |-> audience, tone |-> tone, length |-> length,
                result |-> Returned(build_stage1_stub(raw_text, preset, audience, tone, length))]
    /\ UNCHANGED <<config, requests>>

CallStage1Parse(model_output, preset, audience, tone, length, raw_text) ==
    /\ call = NoCall
    /\ call' = [fn |-> "parse_stage1_response", model_output |-> model_output,
                preset |-> preset, audience |-> audience, tone |-> tone, length |-> length,
                raw_text |-> raw_text,
                cleaned |-> ExtractJson(model_output),
                result |-> Returned(parse_stage1_response(model_output, preset, audience,
                                                          tone, length, raw_text))]
    /\ UNCHANGED <<config, requests>>

CorePresets == {EditPreset(p) : p \in LegacyPresets}

CoreInit ==
    /\ GEMINI_AVAILABLE = TRUE
    /\ GEMINI_API_KEY = TRUE
    /\ PROJECT_ID = FALSE
    /\ APP_HELPERS_AVAILABLE = TRUE
    /\ requests = [r \in Requests |-> Idle]
    /\ call = NoCall

CoreNext ==
    \/ \E payload \in Payloads \cup FlatPayloads \cup PresetPayloads, preset \in CorePresets :
            CallNormalize(payload, preset)
    \/ \E raw_text \in RawTexts \cup StubTexts \cup LongTexts, preset \in CorePresets :
            CallStub(raw_text, preset)
    \/ \E model_output \in ModelOutputs \cup FencedOutputs \cup DecodedOutputs,
          preset \in CorePresets, raw_text \in RawTexts :
            CallParse(model_output, preset, raw_text)
    \/ \E raw_text \in RawTexts \cup StubTexts, preset \in Stage1Presets,
          audience \in Audiences, tone \in Tones, length \in Lengths :
            CallStage1Stub(raw_text, preset, audience, tone, length)
    \/ \E raw_text \in RawTexts, preset \in Stage1Presets, audience \in Audiences,
          tone \in Tones, length \in Lengths :
            \E model_output \in ModelOutputs \cup FencedOutputs \cup DecodedOutputs :
                    CallStage1Parse(model_output, preset, audience, tone, length, raw_text)

CoreSpec == CoreInit /\ [][CoreNext]_vars

(***************************************************************************)
(* Direct applications of the text utilities (src/app.py 142-172,          *)
(* src/backend/core/text_utils.py 52-143): a behaviour applies one         *)
(* function to one choice of arguments                                     *)
(***************************************************************************)
MaxChars == 3
MaxWords == 3
MaxLimit == 3
MaxWordCount == 320

\* an upper-case and a lower-case letter, the apostrophe, a digit, whitespace,
\* punctuation and a letter outside ASCII
TokenAlphabet == {"a", "B", "'", "1", " ", "-", KelvinSign}

RECURSIVE CharSeqs(_)
CharSeqs(n) ==
    IF n = 0 THEN {<<>>}
    ELSE LET shorter == CharSeqs(n - 1) IN
         shorter \cup {Append(s, c) : s \in {t \in shorter : Len(t) = n - 1},
                                      c \in TokenAlphabet}

CharTexts == CharSeqs(MaxChars)

\* words of different lengths, two of the same length, one in two cases, a stopword
\* and a word of three letters
WordPool ==
    {<<"r", "a", "c", "i", "n", "g">>, <<"R", "a", "c", "i", "n", "g">>, <<"c", "h", "a", "m", "p", "i", "o", "n">>,
     <<"h", "o", "r", "s", "e", "s">>, <<"t", "h", "e">>, <<"r", "u", "n">>}

RECURSIVE WordSeqs(_)
WordSeqs(n) ==
    IF n = 0 THEN {<<>>}
    ELSE LET shorter == WordSeqs(n - 1) IN
         shorter \cup {Append(s, w) : s \in {t \in shorter : Len(t) = n - 1},
                                      w \in WordPool}

\* the example of the docstring of extract_keywords (text_utils.py 126)
DocExample == <<"r", "a", "c", "i", "n", "g", " ", "r", "a", "c", "i", "n", "g", " ", "c", "h",
      "a", "m", "p", "i", "o", "n", " ", "p", "e", "r", "f", "o", "r", "m", "a", "n",
      "c", "e">>

KeywordTexts == {Join(ws, <<" ">>) : ws \in WordSeqs(MaxWords)} \cup {DocExample}

CallTokenize(text) ==
    /\ call = NoCall
    /\ call' = [fn |-> "tokenize_words", text |-> text, result |-> tokenize_words(text)]
    /\ UNCHANGED <<config, requests>>

CallKeywords(text, limit) ==
    /\ call = NoCall
    /\ call' = [fn |-> "extract_keywords", text |-> text, limit |-> limit,
                result |-> extract_keywords(text, limit)]
    /\ UNCHANGED <<config, requests>>

CallBand(word_count) ==
    /\ call = NoCall
    /\ call' = [fn |-> "compute_readability_band", word_count |-> word_count,
                result |-> compute_readability_band(word_count)]
    /\ UNCHANGED <<config, requests>>

CallBandStage1(word_count) ==
    /\ call = NoCall
    /\ call' = [fn |-> "compute_readability_band_stage1", word_count |-> word_count,
                result |-> compute_readability_band_stage1(word_count)]
    /\ UNCHANGED <<config, requests>>

TextNext ==
    \/ \E text \in CharTexts : CallTokenize(text)
    \/ \E text \in KeywordTexts, limit \in 0..MaxLimit : CallKeywords(text, limit)
    \/ \E word_count \in 0..MaxWordCount :
            \/ CallBand(word_count)
            \/ CallBandStage1(word_count)

TextSpec == CoreInit /\ [][TextNext]_vars

(***************************************************************************)
(* Direct applications of the functions of backend/core/text_utils.py, and *)
(* of extract_keywords of app.py on the same texts                         *)
(***************************************************************************)
text_utils_CallTokenize(text) ==
    /\ call = NoCall
    /\ call' = [fn |-> "text_utils.tokenize_words", text |-> text,
                result |-> text_utils_tokenize_words(text)]
    /\ UNCHANGED <<config, requests>>

text_utils_CallKeywords(text, limit) ==
    /\ call = NoCall
    /\ call' = [fn |-> "text_utils.extract_keywords", text |-> text, limit |-> limit,
                result |-> text_utils_extract_keywords(text, limit)]
    /\ UNCHANGED <<config, requests>>

text_utils_CallBand(word_count) ==
    /\ call = NoCall
    /\ call' = [fn |-> "text_utils.compute_readability_band", word_count |-> word_count,
                result |-> text_utils_compute_readability_band(word_count)]
    /\ UNCHANGED <<config, requests>>

text_utils_CallBandStage1(word_count) ==
    /\ call = NoCall
    /\ call' = [fn |-> "text_utils.compute_readability_band_stage1",
                word_count |-> word_count,
                result |-> text_utils_compute_readability_band_stage1(word_count)]
    /\ UNCHANGED <<config, requests>>

\* two words of equal length, a longer one, a stopword of four letters, a short word
UtilsWordPool ==
    {<<"r", "a", "c", "i", "n", "g">>, <<"h", "o", "r", "s", "e", "s">>,
     <<"c", "h", "a", "m", "p", "i", "o", "n">>, <<"f", "r", "o", "m">>, <<"r", "u", "n">>}

RECURSIVE UtilsWordSeqs(_)
UtilsWordSeqs(n) ==
    IF n = 0 THEN {<<>>}
    ELSE LET shorter == UtilsWordSeqs(n - 1) IN
         shorter \cup {Append(s, w) : s \in {t \in shorter : Len(t) = n - 1},
                                      w \in UtilsWordPool}

UtilsTexts == {Join(ws, <<" ">>) : ws \in UtilsWordSeqs(MaxWords)} \cup {DocExample}
UtilsLimits == {0, 1, MaxLimit}

UtilsNext ==
    \/ \E text \in CharTexts : text_utils_CallTokenize(text)
    \/ \E text \in UtilsTexts, limit \in UtilsLimits : text_utils_CallKeywords(text, limit)
    \/ \E word_count \in 0..MaxWordCount : text_utils_CallBand(word_count)
    \/ \E word_count \in 0..MaxWordCount : text_utils_CallBandStage1(word_count)
    \/ \E text \in UtilsTexts, limit \in UtilsLimits : CallKeywords(text, limit)

UtilsSpec == CoreInit /\ [][UtilsNext]_vars

(***************************************************************************)
(* Shapes of documents                                                     *)
(***************************************************************************)
Keys(d) == {d.kv[i].k : i \in 1..Len(d.kv)}

\* d without the keys in ks
Without(d, ks) == PyDict(SelectSeq(d.kv, LAMBDA item : item.k \notin ks))

IsStrList(v) == IsList(v) /\ \A i \in 1..Len(v.items) : IsStr(v.items[i])

HasStr(d, k) == HasKey(d, k) /\ IsStr(Get(d, k, PyNone))

LegacyStrKeys ==
    {k_preset, k_headline, k_subheadline, k_quote, k_quote_by, k_social_caption, k_cta}
LegacyListKeys == {k_body, k_key_points}

\* the legacy document: exactly the nine fields, each of its type
LegacyValid(d) ==
    /\ IsDict(d)
    /\ Keys(d) = LegacyStrKeys \cup LegacyListKeys
    /\ Len(d.kv) = Cardinality(LegacyStrKeys \cup LegacyListKeys)
    /\ \A k \in LegacyStrKeys : IsStr(Get(d, k, PyNone))
    /\ \A k \in LegacyListKeys : IsStrList(Get(d, k, PyNone))

Stage1StrKeys ==
    {k_preset, k_audience, k_tone, k_length, k_headline, k_subheadline, k_quote,
     k_quote_by, k_social_caption}

\* a {id, heading, body} record
IsSection(v) == IsDict(v) /\ \A k \in {k_id, k_heading, k_body} : HasStr(v, k)

\* the required fields of Stage1Content (src/app.py 535-547), each of its type
Stage1Valid(d) ==
    /\ IsDict(d)
    /\ \A k \in Stage1StrKeys : HasStr(d, k)
    /\ HasKey(d, k_sections)
    /\ IsList(Get(d, k_sections, PyNone))
    /\ \A i \in 1..Len(Get(d, k_sections, PyNone).items) :
            IsSection(Get(d, k_sections, PyNone).items[i])
    /\ HasKey(d, k_key_points)
    /\ IsStrList(Get(d, k_key_points, PyNone))
    /\ HasKey(d, k_meta)
    /\ IsDict(Get(d, k_meta, PyNone))

NonEmptySections(d) ==
    /\ HasKey(d, k_sections)
    /\ IsList(Get(d, k_sections, PyNone))
    /\ Get(d, k_sections, PyNone).items # <<>>

\* the requests whose handler has returned
Finished == {r \in Requests : requests[r].pc = "done"}

\* the stub document of the handler of request state q
StubFor(q) ==
    IF q.handler = "edit_rewrite" THEN stub_structured_content(q.raw_text, q.preset).val
    ELSE build_stage1_stub(q.raw_text, q.preset, q.audience, q.tone, q.length)

Diagnostics == {k_source, k_error, k_message}

(***************************************************************************)
(* Properties                                                              *)
(***************************************************************************)

\* C1: parse_structured_response never raises and returns a document with exactly the
\* nine legacy fields, the seven flat ones strings and body, key_points sequences of
\* strings, for every model output, preset and raw text.
C1_LegacyParseTotal ==
    call.fn = "parse_structured_response" =>
        ~call.result.raised /\ LegacyValid(call.result.val)

\* C1 witness: the output decoded to an object the normalizer rejected, and a valid
\* document was returned all the same.
C1_Witness ==
    /\ call.fn = "parse_structured_response"
    /\ call.model_output = OutBodyNumbers
    /\ ~call.result.raised
    /\ LegacyValid(call.result.val)

\* C2: the document parse_stage1_response returns is a structurally valid stage-1
\* document (the string fields present as strings, sections a sequence of
\* {id, heading, body} records, key_points a sequence of strings, meta a mapping).
C2_Stage1ParseValid ==
    call.fn = "parse_stage1_response" => Stage1Valid(call.result.val)

\* C3, as claimed: sections is non-empty in every document parse_stage1_response or
\* build_stage1_stub returns.
C3_SectionsNeverEmpty ==
    call.fn \in {"parse_stage1_response", "build_stage1_stub"} =>
        NonEmptySections(call.result.val)

\* C3, amended: sections is non-empty in every document the stub synthesizes, that is
\* build_stage1_stub on any raw text and parse_stage1_response on an output that does
\* not decode to an object; when the output decodes to an object that has no sections
\* key, sections is the empty sequence.
C3_StubSectionsNonEmpty ==
    /\ call.fn = "build_stage1_stub" => NonEmptySections(call.result.val)
    /\ call.fn = "parse_stage1_response" =>
        LET decoded == JsonLoads(ExtractJson(call.model_output)) IN
        /\ ~(decoded.ok /\ IsDict(decoded.val)) => NonEmptySections(call.result.val)
        /\ decoded.ok /\ IsDict(decoded.val) /\ ~HasKey(decoded.val, k_sections) =>
                Get(call.result.val, k_sections, PyNone) = PyList(<<>>)

\* C3 witness: an undecodable output with an empty raw text gave the one placeholder
\* section.
C3_Witness ==
    /\ call.fn = "parse_stage1_response"
    /\ call.model_output = OutProse
    /\ call.raw_text = <<>>
    /\ Len(Get(call.result.val, k_sections, PyNone).items) = 1
    /\ Get(Get(call.result.val, k_sections, PyNone).items[1], k_body, PyNone)
            = PyStr(ContentPending)

\* C4: in every document a rewrite handler returns, source is "stub" exactly when the
\* content was produced by the stub synthesizer and "gemini" exactly when it was
\* decoded from the model's output.
C4_SourceIsProvenance ==
    \A r \in Finished :
        LET source == Get(requests[r].response.content, k_source, PyNone) IN
        /\ source = PyStr(SourceStub) <=> requests[r].path # "parsed"
        /\ source = PyStr(SourceGemini) <=> requests[r].path = "parsed"

\* C5: when the provider's output fails to decode as a JSON object, the returned
\* document carries a message, and it is not the generation-failure message.
C5_ParseFailureMessage ==
    \A r \in Finished :
        requests[r].path = "parse_failed" =>
            /\ HasStr(requests[r].response.content, k_message)
            /\ Get(requests[r].response.content, k_message, PyNone) # PyStr(FailedMessage)

\* C6: whenever the provider call raises, the returned document is the stub synthesized
\* from the request's raw text with source "stub", error "gemini_rewrite_failed" and a
\* non-empty message.
C6_ProviderFailureFallback ==
    \A r \in Finished :
        requests[r].path = "provider_raised" =>
            LET content == requests[r].response.content IN
            /\ Without(content, Diagnostics) = Without(StubFor(requests[r]), Diagnostics)
            /\ Get(content, k_source, PyNone) = PyStr(SourceStub)
            /\ Get(content, k_error, PyNone) = PyStr(ErrorCode)
            /\ HasStr(content, k_message)
            /\ Get(content, k_message, PyNone).s # <<>>

\* C6 witness: the provider call raised in each of the three handlers' shapes; here
\* the handler of backend/main.py on a two-paragraph text.
C6_Witness ==
    \E r \in Finished :
        /\ requests[r].path = "provider_raised"
        /\ requests[r].handler = "main_stage1_rewrite"
        /\ Len(Get(requests[r].response.content, k_sections, PyNone).items) = MaxParagraphs

\* C7: whenever no provider is configured, the handler returns the stub with source
\* "stub", a message other than the upstream-failure message, and no error field.
C7_NotConfiguredMessage ==
    \A r \in Finished :
        requests[r].path = "not_configured" =>
            LET content == requests[r].response.content IN
            /\ Get(content, k_source, PyNone) = PyStr(SourceStub)
            /\ HasStr(content, k_message)
            /\ Get(content, k_message, PyNone) # PyStr(FailedMessage)
            /\ ~HasKey(content, k_error)

\* C8, as claimed: every rewrite request ends with a document returned with the
\* success status, whatever happened to the provider call or the parse.
C8_NeverErrorStatus ==
    \A r \in Finished :
        /\ IsDict(requests[r].response.content)
        /\ requests[r].response.status = DefaultStatus

\* C8, amended: every rewrite request whose provider is not configured, whose provider
\* call raises or whose provider output fails to parse ends with a document; the handler
\* returns it with the success status when the provider is not configured or the output
\* failed to parse, and with status 502 when the provider call raised.
C8_ErrorStatusOnlyWhenProviderRaised ==
    \A r \in Finished :
        requests[r].path # "parsed" =>
            /\ IsDict(requests[r].response.content)
            /\ requests[r].path = "provider_raised" =>
                    requests[r].response.status = BadGateway
            /\ requests[r].path # "provider_raised" =>
                    requests[r].response.status = DefaultStatus

\* C8 witness: a parse failure was answered with the stub and the success status.
C8_Witness ==
    \E r \in Finished :
        /\ requests[r].path = "parse_failed"
        /\ requests[r].response.status = DefaultStatus
        /\ Without(requests[r].response.content, Diagnostics)
                = Without(StubFor(requests[r]), Diagnostics)

\* C9: normalize_structured_content never raises on a mapping, whatever the shapes of
\* its values.
C9_NormalizeNeverRaises ==
    call.fn = "normalize_structured_content" /\ IsDict(call.payload) =>
        ~call.result.raised

\* C10: whenever the extracted text decodes to a JSON object, the legacy parser returns
\* the normalizer's coercion of that object; the object is never replaced by the stub.
C10_ObjectNeverRejected ==
    call.fn = "parse_structured_response" =>
        LET decoded == JsonLoads(ExtractJson(call.model_output)) IN
        decoded.ok /\ IsDict(decoded.val) =>
            /\ ~normalize_structured_content(decoded.val, call.preset).raised
            /\ call.result = normalize_structured_content(decoded.val, call.preset)


(***************************************************************************)
(* Text utilities                                                          *)
(***************************************************************************)
\* the distinct tokens that are longer than 3 characters and no stopwords
QualifyingTokens(tokens) ==
    {tokens[i] : i \in {j \in 1..Len(tokens) :
                            Len(tokens[j]) > 3 /\ tokens[j] \notin STOPWORDS}}

\* how often a token occurs among the tokens of a text
Occurrences(tokens, w) == Cardinality({i \in 1..Len(tokens) : tokens[i] = w})

\* a ranks before b: more frequent, or as frequent and longer, or as frequent, as long
\* and lexicographically smaller
RanksBefore(tokens, a, b) ==
    \/ Occurrences(tokens, a) > Occurrences(tokens, b)
    \/ /\ Occurrences(tokens, a) = Occurrences(tokens, b)
       /\ Len(a) > Len(b)
    \/ /\ Occurrences(tokens, a) = Occurrences(tokens, b)
       /\ Len(a) = Len(b)
       /\ StrLess(a, b)

Range(seq) == {seq[i] : i \in 1..Len(seq)}

\* C11: extract_keywords("racing racing champion performance", limit=2) returns
\* ["racing", "champion"].
C11_DocExampleKeywords ==
    call.fn = "extract_keywords" /\ call.text = DocExample /\ call.limit = 2 =>
        call.result = <<<<"r", "a", "c", "i", "n", "g">>, <<"c", "h", "a", "m", "p", "i", "o", "n">>>>

\* C12: extract_keywords returns the first limit elements of the distinct qualifying
\* tokens sorted by descending frequency, then descending length, then ascending
\* lexicographic order: the result holds qualifying tokens only, each ranks before the
\* next, every qualifying token left out ranks after all that are returned, and tokens
\* are left out only when the limit is reached.
C12_KeywordOrder ==
    call.fn = "extract_keywords" =>
        LET r == call.result
            tokens == tokenize_words(call.text)
            Q == QualifyingTokens(tokens)
        IN  /\ Range(r) \subseteq Q
            /\ \A i, j \in 1..Len(r) : i < j => RanksBefore(tokens, r[i], r[j])
            /\ \A w \in Q \ Range(r) :
                    \A i \in 1..Len(r) : RanksBefore(tokens, r[i], w)
            /\ Len(r) <= call.limit
            /\ Range(r) # Q => Len(r) = call.limit

\* C12 witness: three tokens of one occurrence each, two of them of the same length,
\* were ranked by length and then alphabetically.
C12_Witness ==
    /\ call.fn = "extract_keywords"
    /\ call.text = <<"r", "a", "c", "i", "n", "g", " ", "h", "o", "r", "s", "e", "s", " ", "c", "h",
      "a", "m", "p", "i", "o", "n">>
    /\ call.limit = 3
    /\ call.result = <<<<"c", "h", "a", "m", "p", "i", "o", "n">>, <<"h", "o", "r", "s", "e", "s">>, <<"r", "a", "c", "i", "n", "g">>>>

\* C13: extract_keywords returns exactly min(limit, number of distinct qualifying
\* tokens) keywords, and none when no token qualifies.
C13_KeywordCount ==
    call.fn = "extract_keywords" =>
        LET n == Cardinality(QualifyingTokens(tokenize_words(call.text))) IN
        /\ Len(call.result) = IF call.limit < n THEN call.limit ELSE n
        /\ n = 0 => call.result = <<>>

\* C13 witness: fewer tokens qualify than the limit allows and all of them are
\* returned; the stopwords and the word of three letters are not.
C13_Witness ==
    /\ call.fn = "extract_keywords"
    /\ call.text = <<"t", "h", "e", " ", "r", "u", "n", " ", "h", "o", "r", "s", "e", "s">>
    /\ call.limit = 3
    /\ call.result = <<<<"h", "o", "r", "s", "e", "s">>>>

\* the maximal runs of the characters of chars in s, in order of occurrence
RECURSIVE RunsOf(_, _, _, _)
RunsOf(s, chars, run, runs) ==
    IF s = <<>> THEN (IF run = <<>> THEN runs ELSE Append(runs, run))
    ELSE IF Head(s) \in chars THEN RunsOf(Tail(s), chars, Append(run, Head(s)), runs)
    ELSE RunsOf(Tail(s), chars, <<>>, IF run = <<>> THEN runs ELSE Append(runs, run))

AsciiLetters == Range(LowerCase) \cup Range(UpperCase)
Apostrophe == "'"

\* C14, as claimed: tokenize_words returns the maximal runs of ASCII letters and
\* apostrophes of the text, lowercased; every other character separates tokens.
C14_RunsOfText ==
    call.fn = "tokenize_words" =>
        LET runs == RunsOf(call.text, AsciiLetters \cup {Apostrophe}, <<>>, <<>>) IN
        call.result = [k \in 1..Len(runs) |-> Lower(runs[k])]

\* C14, amended: tokenize_words returns, in order, the maximal runs of a-z and
\* apostrophe of the lowercased text; every token is non-empty and made of a-z and
\* apostrophe only, and the empty text has no token.
C14_RunsOfLoweredText ==
    call.fn = "tokenize_words" =>
        /\ call.result = RunsOf(Lower(call.text), Range(LowerCase) \cup {Apostrophe},
                                <<>>, <<>>)
        /\ \A k \in 1..Len(call.result) :
                /\ call.result[k] # <<>>
                /\ Range(call.result[k]) \subseteq Range(LowerCase) \cup {Apostrophe}
        /\ call.text = <<>> => call.result = <<>>

\* C14 witness: an upper-case letter was folded and joined the run of its neighbour,
\* and the digit after them is in no token.
C14_Witness ==
    /\ call.fn = "tokenize_words"
    /\ call.text = <<"B", "a", "1">>
    /\ call.result = <<<<"b", "a">>>>

\* C15: compute_readability_band returns "very short" iff n < 60, "good length" iff
\* 60 <= n < 160, "long" iff 160 <= n < 300 and "very long" iff n >= 300.
C15_LegacyBands ==
    call.fn = "compute_readability_band" =>
        LET n == call.word_count IN
        /\ call.result = <<"v", "e", "r", "y", " ", "s", "h", "o", "r", "t">> <=> n < 60
        /\ call.result = <<"g", "o", "o", "d", " ", "l", "e", "n", "g", "t", "h">> <=> 60 <= n /\ n < 160
        /\ call.result = <<"l", "o", "n", "g">> <=> 160 <= n /\ n < 300
        /\ call.result = <<"v", "e", "r", "y", " ", "l", "o", "n", "g">> <=> n >= 300

\* C15 witness: the count 300 was classified "very long".
C15_Witness ==
    /\ call.fn = "compute_readability_band"
    /\ call.word_count = 300
    /\ call.result = <<"v", "e", "r", "y", " ", "l", "o", "n", "g">>

\* C16: compute_readability_band_stage1 returns "very_short" iff n < 80, "good" iff
\* 80 <= n < 220 and "long" iff n >= 220, and always one of the three.
C16_Stage1Bands ==
    call.fn = "compute_readability_band_stage1" =>
        LET n == call.word_count IN
        /\ call.result = <<"v", "e", "r", "y", "_", "s", "h", "o", "r", "t">> <=> n < 80
        /\ call.result = <<"g", "o", "o", "d">> <=> 80 <= n /\ n < 220
        /\ call.result = <<"l", "o", "n", "g">> <=> n >= 220
        /\ call.result \in {<<"v", "e", "r", "y", "_", "s", "h", "o", "r", "t">>, <<"g", "o", "o", "d">>, <<"l", "o", "n", "g">>}

\* C16 witness: the count 220 was classified "long".
C16_Witness ==
    /\ call.fn = "compute_readability_band_stage1"
    /\ call.word_count = 220
    /\ call.result = <<"l", "o", "n", "g">>


(***************************************************************************)
(* Schema Normalizer                                                       *)
(***************************************************************************)
\* the elements a value of body or key_points offers: the bare string itself, the items
\* of a sequence, the keys of a mapping
Elements(v) ==
    IF IsStr(v) THEN <<v>>
    ELSE IF IsList(v) THEN v.items
    ELSE IF IsDict(v) THEN [i \in 1..Len(v.kv) |-> PyStr(v.kv[i].k)]
    ELSE <<>>

\* s is not empty and neither starts nor ends with whitespace
Trimmed(s) == s # <<>> /\ s[1] \notin Whitespace /\ s[Len(s)] \notin Whitespace

HasSolid(s) == \E i \in 1..Len(s) : s[i] \notin Whitespace

IncreasingMaps(m, n) == {f \in [1..m -> 1..n] : \A i, j \in 1..m : i < j => f[i] < f[j]}

\* out is a sequence of trimmed, non-empty strings, each the trimmed form of a string
\* element of the input, in the input's order
CleanedFrom(input, out) ==
    /\ IsList(out)
    /\ \A i \in 1..Len(out.items) : IsStr(out.items[i]) /\ Trimmed(out.items[i].s)
    /\ \E f \in IncreasingMaps(Len(out.items), Len(Elements(input))) :
            \A i \in 1..Len(out.items) :
                /\ IsStr(Elements(input)[f[i]])
                /\ out.items[i].s = Strip(Elements(input)[f[i]].s)

NormalizeReturned == call.fn = "normalize_structured_content" /\ ~call.result.raised

\* C17: in every document normalize_structured_content returns, body and key_points
\* are sequences of trimmed, non-empty strings, the survivors in the order they had in
\* the input.
C17_CleanSequences ==
    NormalizeReturned =>
        \A key \in {k_body, k_key_points} :
            CleanedFrom(Get(call.payload, key, PyList(<<>>)),
                        Get(call.result.val, key, PyNone))

\* C17 witness: of the elements "a ", " ", "b" the whitespace-only one was dropped and
\* the other two were trimmed and kept in order.
C17_Witness ==
    /\ NormalizeReturned
    /\ Get(call.payload, k_body, PyNone)
            = PyList(<<PyStr(<<"a", " ">>), PyStr(<<" ">>), PyStr(<<"b">>)>>)
    /\ Get(call.result.val, k_body, PyNone) = PyList(<<PyStr(<<"a">>), PyStr(<<"b">>)>>)

\* C18, as claimed: for a body that is a bare non-empty string s the returned document
\* has body == [trim(s)].
C18_BareStringWrapped ==
    NormalizeReturned =>
        LET body == Get(call.payload, k_body, PyNone) IN
        IsStr(body) /\ body.s # <<>> =>
            Get(call.result.val, k_body, PyNone) = PyList(<<PyStr(Strip(body.s))>>)

\* C18, amended: for a body that is a bare string s the returned document has
\* body == [trim(s)] when s holds a character that is not whitespace, and body == []
\* when s is empty or whitespace only.
C18_BareSolidStringWrapped ==
    NormalizeReturned =>
        LET body == Get(call.payload, k_body, PyNone) IN
        IsStr(body) =>
            Get(call.result.val, k_body, PyNone) =
                IF HasSolid(body.s) THEN PyList(<<PyStr(Strip(body.s))>>) ELSE PyList(<<>>)

\* C18 witness: the bare string "  hi  " became the one-element body ["hi"].
C18_Witness ==
    /\ NormalizeReturned
    /\ Get(call.payload, k_body, PyNone) = PyStr(<<" ", " ", "h", "i", " ", " ">>)
    /\ Get(call.result.val, k_body, PyNone) = PyList(<<PyStr(<<"h", "i">>)>>)

\* str() of the values of FlatShapes that are neither strings nor None
Stringified(v) ==
    CASE v = PyInt(0) -> <<"0">>
      [] v = PyInt(7) -> <<"7">>
      [] v = PyBool(TRUE) -> <<"T", "r", "u", "e">>
      [] v = PyBool(FALSE) -> <<"F", "a", "l", "s", "e">>
      [] v = PyList(<<>>) -> <<"[", "]">>
      [] v = PyList(<<PyInt(1), PyStr(<<"a">>)>>) -> <<"[", "1", ",", " ", "'", "a", "'", "]">>
      [] v = PyDict(<<>>) -> <<"{", "}">>
      [] OTHER -> Str(v)

\* C19: each of the six flat fields is "" when the key is missing or null, the trimmed
\* value when it is a string and its stringification when it is any other value;
\* the empty mapping is normalized to "" for all six and [] for body and key_points.
C19_FlatFields ==
    call.fn = "normalize_structured_content" =>
        /\ ~call.result.raised =>
            \A k \in FlatKeys :
                LET out == Get(call.result.val, k, PyNone)
                    v == Get(call.payload, k, PyNone)
                IN  /\ ~HasKey(call.payload, k) => out = PyStr(<<>>)
                    /\ HasKey(call.payload, k) /\ v = PyNone => out = PyStr(<<>>)
                    /\ HasKey(call.payload, k) /\ IsStr(v) =>
                            out = PyStr(Strip(v.s)) /\ (out.s = <<>> \/ Trimmed(out.s))
                    /\ HasKey(call.payload, k) /\ v.t \notin {"None", "str"} =>
                            out = PyStr(Stringified(v))
        /\ call.payload = PyDict(<<>>) =>
            /\ ~call.result.raised
            /\ \A k \in FlatKeys : Get(call.result.val, k, PyNone) = PyStr(<<>>)
            /\ \A k \in {k_body, k_key_points} :
                    Get(call.result.val, k, PyNone) = PyList(<<>>)

\* C19 witness: a quote given as the sequence [1, "a"] came back as its stringification.
C19_Witness ==
    /\ NormalizeReturned
    /\ Get(call.payload, k_quote, PyNone) = PyList(<<PyInt(1), PyStr(<<"a">>)>>)
    /\ Get(call.result.val, k_quote, PyNone) = PyStr(<<"[", "1", ",", " ", "'", "a", "'", "]">>)
    /\ Get(call.result.val, k_cta, PyNone) = PyStr(<<>>)

(***************************************************************************)
(* Fence extraction                                                        *)
(***************************************************************************)
\* the positions at which sub occurs in t
Hits(t, sub) == {i \in 1..(Len(t) - Len(sub) + 1) : SubSeq(t, i, i + Len(sub) - 1) = sub}

\* the content between the first occurrence of open and the next fence after it, or the
\* end of the text when no fence follows
Between(t, open) ==
    LET start == Min(Hits(t, open)) + Len(open)
        closing == {i \in Hits(t, Fence) : i >= start}
        stop == IF closing = {} THEN Len(t) + 1 ELSE Min(closing)
    IN  SubSeq(t, start, stop - 1)

\* C20: in both parsers the text decoded is the content between the first json-tagged
\* fence and the next fence after it if the trimmed output holds a json-tagged fence
\* (even after an untagged block), else the content between the first fence and the
\* next one if it holds any fence, else the whole trimmed output; where no fence
\* follows the opening one, the content runs to the end of the output.
C20_FenceExtraction ==
    call.fn \in {"parse_structured_response", "parse_stage1_response"} =>
        LET t == Strip(call.model_output) IN
        call.cleaned = IF Hits(t, JsonFence) # {} THEN Between(t, JsonFence)
                       ELSE IF Hits(t, Fence) # {} THEN Between(t, Fence)
                       ELSE t

\* C20 witness: the json-tagged block that follows an untagged block was the one
\* decoded, and its headline is the one returned.
C20_Witness ==
    /\ call.fn = "parse_structured_response"
    /\ call.model_output = OutPlainThenJson
    /\ call.cleaned = <<"\n", "{", "\"", "h", "e", "a", "d", "l", "i", "n", "e", "\"", ":", "\"", "X",
      "\"", "}", "\n">>
    /\ ~call.result.raised
    /\ Get(call.result.val, k_headline, PyNone) = PyStr(<<"X">>)


(***************************************************************************)
(* Stage-1 defaulting, stubs, non-interference, equivalences (C21-C30)     *)
(***************************************************************************)
\* the value parse_stage1_response was given for key k of the request
RequestValue(c, k) ==
    IF k = k_preset THEN c.preset
    ELSE IF k = k_audience THEN c.audience
    ELSE IF k = k_tone THEN c.tone
    ELSE c.length

RequestKeys == {k_preset, k_audience, k_tone, k_length}
EmptyDefault(k) == IF k = k_meta THEN PyDict(<<>>) ELSE PyList(<<>>)

\* C21: when the extracted text decodes to an object d, the returned document holds,
\* under preset, audience, tone and length, d's value when d has the key (whatever the
\* value) and the request's value only when it has not; sections, key_points and meta
\* are the empty sequence, the empty sequence and the empty mapping only when absent;
\* a sections value that is one mapping is returned as a one-element sequence holding
\* it; every other key of d is returned unchanged and no further key appears.
C21_Stage1Defaulting ==
    call.fn = "parse_stage1_response" =>
        LET parsed == JsonLoads(call.cleaned) IN
        (parsed.ok /\ IsDict(parsed.val)) =>
            LET d == parsed.val
                r == call.result.val
            IN  /\ IsDict(r)
                /\ Keys(r) = Keys(d) \cup RequestKeys \cup {k_sections, k_key_points, k_meta}
                /\ \A k \in RequestKeys :
                        Get(r, k, Absent) =
                            IF HasKey(d, k) THEN Get(d, k, Absent) ELSE RequestValue(call, k)
                /\ \A k \in {k_key_points, k_meta} :
                        Get(r, k, Absent) =
                            IF HasKey(d, k) THEN Get(d, k, Absent) ELSE EmptyDefault(k)
                /\ Get(r, k_sections, Absent) =
                        IF ~HasKey(d, k_sections) THEN PyList(<<>>)
                        ELSE IF IsDict(Get(d, k_sections, Absent))
                             THEN PyList(<<Get(d, k_sections, Absent)>>)
                             ELSE Get(d, k_sections, Absent)
                /\ \A k \in Keys(d) \ (RequestKeys \cup {k_sections, k_key_points, k_meta}) :
                        Get(r, k, Absent) = Get(d, k, Absent)

\* C21 witness: the decoded object held preset (null), tone, key_points, meta and an
\* extra key but no audience, length or sections; the null preset and the extra key came
\* back, audience and length are the request's, sections is empty.
C21_Witness ==
    /\ call.fn = "parse_stage1_response"
    /\ call.model_output = OutPartial
    /\ Get(call.result.val, k_preset, Absent) = PyNone
    /\ Get(call.result.val, k_audience, Absent) = call.audience
    /\ Get(call.result.val, k_sections, Absent) = PyList(<<>>)
    /\ Get(call.result.val, k_key_points, Absent) = PyList(<<PyStr(<<"k">>)>>)
    /\ Get(call.result.val, <<"e", "x", "t", "r", "a">>, Absent) = PyList(<<PyInt(1)>>)


\* the index at which the run of newlines holding index i begins
RunStart(t, i) == Min({j \in 1..i : \A k \in j..i : t[k] = "\n"})

\* the indices at which a blank line (two newlines) separates two pieces of t: in a run
\* of newlines the pairs are taken from the left, so the first, third, ... newline of
\* the run begins a separator if another newline follows it
BreaksOf(t) ==
    {i \in 1..(Len(t) - 1) :
        t[i] = "\n" /\ t[i + 1] = "\n" /\ (i - RunStart(t, i)) % 2 = 0}

\* the pieces of t between its blank lines, in order
PiecesOf(t) ==
    LET B == BreaksOf(t)
        n == Cardinality(B)
    IN  [k \in 1..(n + 1) |->
            SubSeq(t, IF k = 1 THEN 1 ELSE NthSmallest(B, k - 1) + 2,
                      IF k = n + 1 THEN Len(t) ELSE NthSmallest(B, k) - 1)]

\* the trimmed non-empty paragraphs of the trimmed text, in original order
TrimmedParagraphs(raw_text) ==
    LET pieces == PiecesOf(Strip(raw_text))
        trimmed == [k \in 1..Len(pieces) |-> Strip(pieces[k])]
    IN  SelectSeq(trimmed, LAMBDA p : p # <<>>)

FirstThree(seq) == IF Len(seq) <= 3 THEN seq ELSE SubSeq(seq, 1, 3)

StubReturned == call.fn = "stub_structured_content" /\ ~call.result.raised

\* C22: for every raw text the legacy stub returns, and its body and key_points are
\* equal to each other and to the first up-to-3 trimmed non-empty paragraphs of the
\* trimmed text in original order, a paragraph ending only at a blank line (two
\* newlines), never at a single newline; for an empty or whitespace-only raw text both
\* are exactly ["Content pending."].
C22_StubBodyAndKeyPoints ==
    call.fn = "stub_structured_content" =>
        /\ ~call.result.raised
        /\ LET ps == TrimmedParagraphs(call.raw_text)
               expected == IF ps = <<>> THEN <<ContentPending>> ELSE FirstThree(ps)
           IN  /\ Get(call.result.val, k_body, Absent) =
                        PyList([i \in 1..Len(expected) |-> PyStr(expected[i])])
               /\ Get(call.result.val, k_key_points, Absent) =
                        Get(call.result.val, k_body, Absent)
               /\ Solid(call.raw_text) = {} =>
                        Get(call.result.val, k_body, Absent) = PyList(<<PyStr(ContentPending)>>)

\* C22 witness: a raw text of four paragraphs, the first holding a single newline, gave
\* a body of the first three, the first with its newline kept.
C22_Witness ==
    /\ StubReturned
    /\ call.raw_text = ManyParagraphs
    /\ Get(call.result.val, k_body, Absent) =
            PyList(<<PyStr(<<"O", "n", "e", ".", "\n", "U", "n", "o", ".">>),
                     PyStr(<<"T", "w", "o", ".">>),
                     PyStr(<<"T", "h", "r", "e", "e", ".">>)>>)
    /\ Get(call.result.val, k_key_points, Absent) = Get(call.result.val, k_body, Absent)


\* the first paragraph the legacy stub works from
FirstParagraph(raw_text) ==
    LET ps == TrimmedParagraphs(raw_text) IN IF ps = <<>> THEN ContentPending ELSE ps[1]

\* the first n characters of p
FirstChars(p, n) == [i \in 1..(IF Len(p) < n THEN Len(p) ELSE n) |-> p[i]]

\* s without the whitespace it ends with
TrimmedRight(s) == IF Solid(s) = {} THEN <<>> ELSE [i \in 1..Max(Solid(s)) |-> s[i]]

\* the subheadline of the claim: the first 120 characters of p, then "..." iff p is
\* longer than 120 characters
SlicedSubheadline(p) ==
    FirstChars(p, 120) \o (IF Len(p) > 120 THEN <<".", ".", ".">> ELSE <<>>)

\* C23, as claimed: for every raw text the stub's subheadline is exactly the first 120
\* characters of the first paragraph p followed by "..." iff p is longer than 120
\* characters, and its social_caption is exactly the first 140 characters of p.
C23_PlainSlicing ==
    StubReturned =>
        LET p == FirstParagraph(call.raw_text) IN
        /\ Get(call.result.val, k_subheadline, Absent) = PyStr(SlicedSubheadline(p))
        /\ Get(call.result.val, k_social_caption, Absent) = PyStr(FirstChars(p, 140))

\* C23, amended: the subheadline is as claimed, and the social_caption is the first 140
\* characters of p with the whitespace those 140 characters end with removed.
C23_SlicedThenTrimmed ==
    StubReturned =>
        LET p == FirstParagraph(call.raw_text) IN
        /\ Get(call.result.val, k_subheadline, Absent) = PyStr(SlicedSubheadline(p))
        /\ Get(call.result.val, k_social_caption, Absent) =
                PyStr(TrimmedRight(FirstChars(p, 140)))

\* C23 witness: a paragraph of 141 characters whose 140th is a space gave a subheadline
\* of 123 characters ending in the ellipsis and a social_caption of 139 characters.
C23_Witness ==
    /\ StubReturned
    /\ call.raw_text = LongParagraph(CaptionBudget + 1, {CaptionBudget})
    /\ Len(Get(call.result.val, k_subheadline, Absent).s) = 123
    /\ Len(Get(call.result.val, k_social_caption, Absent).s) = 139


Stage1StubCalled == call.fn = "build_stage1_stub"

\* the decimal numeral of a section number below 10
Numeral(i) == <<<<"1">>, <<"2">>, <<"3">>, <<"4">>, <<"5">>, <<"6">>, <<"7">>, <<"8">>, <<"9">>>>[i]

\* C24: build_stage1_stub returns one section per trimmed non-empty blank-line-separated
\* paragraph of the raw text, in original order and without a cap, or one section with
\* body "Content pending." when there is no paragraph; the i-th section has id "sec-i",
\* heading "Section i" and the paragraph as body, so the ids are pairwise distinct;
\* source is "stub" and quote, quote_by are empty strings.
C24_Stage1StubSections ==
    Stage1StubCalled =>
        LET ps == TrimmedParagraphs(call.raw_text)
            expected == IF ps = <<>> THEN <<ContentPending>> ELSE ps
            doc == call.result.val
            sections == Get(doc, k_sections, Absent)
        IN  /\ ~call.result.raised
            /\ IsList(sections)
            /\ Len(sections.items) = Len(expected)
            /\ \A i \in 1..Len(expected) :
                    sections.items[i] =
                        PyDict(<<KV(k_id, PyStr(<<"s", "e", "c", "-">> \o Numeral(i))),
                                 KV(k_heading,
                                    PyStr(<<"S", "e", "c", "t", "i", "o", "n", " ">> \o Numeral(i))),
                                 KV(k_body, PyStr(expected[i]))>>)
            /\ \A i, j \in 1..Len(sections.items) :
                    i # j => Get(sections.items[i], k_id, Absent)
                                # Get(sections.items[j], k_id, Absent)
            /\ Get(doc, k_source, Absent) = PyStr(<<"s", "t", "u", "b">>)
            /\ Get(doc, k_quote, Absent) = PyStr(<<>>)
            /\ Get(doc, k_quote_by, Absent) = PyStr(<<>>)

\* C24 witness: a raw text of four paragraphs gave four sections, the fourth with id
\* "sec-4" and the fourth paragraph as body.
C24_Witness ==
    /\ Stage1StubCalled
    /\ call.raw_text = ManyParagraphs
    /\ Len(Get(call.result.val, k_sections, Absent).items) = 4
    /\ Get(call.result.val, k_sections, Absent).items[4] =
            PyDict(<<KV(k_id, PyStr(<<"s", "e", "c", "-", "4">>)),
                     KV(k_heading, PyStr(<<"S", "e", "c", "t", "i", "o", "n", " ", "4">>)),
                     KV(k_body, PyStr(<<"F", "o", "u", "r", ".">>))>>)


\* the responses the handler of request state q can give to q's inputs when q is the
\* only request of the process, one for each outcome of its provider call
AloneResponses(q) ==
    IF q.handler = "edit_analyze" THEN {EditAnalysis(q.raw_text)}
    ELSE IF q.handler = "stage1_analyse" THEN {Stage1Analysis(q.raw_text)}
    ELSE IF q.handler = "edit_rewrite" THEN
        IF ~GEMINI_AVAILABLE \/ ~GEMINI_API_KEY
        THEN {EditNotConfigured(q.raw_text, q.preset)}
        ELSE {EditOnOutput(o, q.preset, q.raw_text) : o \in PairOutputs}
                \cup {EditOnException(q.raw_text, q.preset)}
    ELSE IF q.handler = "stage1_rewrite" THEN
        IF ~GEMINI_AVAILABLE \/ ~GEMINI_API_KEY
        THEN {Stage1NotConfigured(q.raw_text, q.preset, q.audience, q.tone, q.length)}
        ELSE {Stage1OnOutput(o, q.preset, q.audience, q.tone, q.length, q.raw_text) :
                    o \in PairOutputs}
                \cup {Stage1OnException(q.raw_text, q.preset, q.audience, q.tone, q.length)}
    ELSE
        IF ~APP_HELPERS_AVAILABLE
        THEN {MainHelpersUnavailable(q.raw_text, q.preset, q.audience, q.tone, q.length)}
        ELSE IF ~MainGeminiAvailable \/ ~GEMINI_API_KEY
        THEN {MainNotConfigured(q.raw_text, q.preset, q.audience, q.tone, q.length)}
        ELSE (IF GEMINI_AVAILABLE
              THEN {Stage1OnOutput(o, q.preset, q.audience, q.tone, q.length, q.raw_text) :
                        o \in PairOutputs}
              ELSE {})
                \cup {MainOnException(q.raw_text, q.preset, q.audience, q.tone, q.length, e) :
                        e \in PairExceptions}

\* C25: requests do not interfere. No step of a rewrite or analyse request writes the
\* process-wide state, a step changes the slot of one request only, and under every
\* interleaving of two concurrent requests the response a request finishes with is a
\* response its handler gives to the same inputs when the request runs alone.
C25_NonInterference ==
    [][/\ config' = config
       /\ \A r \in PairRequests :
            requests'[r] # requests[r] =>
                /\ \A o \in PairRequests \ {r} : requests'[o] = requests[o]
                /\ requests'[r].pc = "done" =>
                        requests'[r].response \in AloneResponses(requests'[r])]_vars

\* C25 witness: two rewrite requests with different raw texts are in flight together,
\* the first has finished with the parsed document while the second is still suspended
\* in its provider call.
C25_Witness ==
    /\ requests["r1"].pc = "done"
    /\ requests["r1"].handler = "edit_rewrite"
    /\ requests["r1"].path = "parsed"
    /\ requests["r2"].pc = "awaiting"
    /\ requests["r2"].handler = "stage1_rewrite"
    /\ requests["r2"].raw_text # requests["r1"].raw_text
    /\ requests["r1"].response \in AloneResponses(requests["r1"])


\* whether character c belongs to a token once the text is lowercased
InToken(c) == ToLower(c) \in Range(LowerCase) \cup {Apostrophe}

\* the number of tokens of text: the indices at which a run of token characters begins
TokenCount(text) ==
    Cardinality({i \in 1..Len(text) :
                    InToken(text[i]) /\ (i = 1 \/ ~InToken(text[i - 1]))})

\* the stage-1 band of a word count
Stage1BandOf(n) ==
    IF n < 80 THEN <<"v", "e", "r", "y", "_", "s", "h", "o", "r", "t">>
    ELSE IF n < 220 THEN <<"g", "o", "o", "d">>
    ELSE <<"l", "o", "n", "g">>

\* C26: the meta of the document build_stage1_stub returns is computed from the raw text
\* itself, not from the sections: word_count is the number of tokens of raw_text,
\* readability_band the stage-1 band of that count, keywords the result of
\* extract_keywords(raw_text, 8), of at most 8 entries; an empty raw text gives
\* word_count 0, band "very_short" and no keywords while the document holds exactly one
\* section, the placeholder.
C26_Stage1StubMeta ==
    Stage1StubCalled =>
        LET doc == call.result.val
            meta == Get(doc, k_meta, Absent)
            keywords == Get(meta, k_keywords, Absent)
        IN  /\ Keys(meta) = {k_word_count, k_readability_band, k_keywords}
            /\ Get(meta, k_word_count, Absent) = PyInt(TokenCount(call.raw_text))
            /\ Get(meta, k_readability_band, Absent) =
                    PyStr(Stage1BandOf(TokenCount(call.raw_text)))
            /\ keywords = StrList(extract_keywords(call.raw_text, 8))
            /\ Len(keywords.items) <= 8
            /\ call.raw_text = <<>> =>
                    /\ Get(meta, k_word_count, Absent) = PyInt(0)
                    /\ Get(meta, k_readability_band, Absent) =
                            PyStr(<<"v", "e", "r", "y", "_", "s", "h", "o", "r", "t">>)
                    /\ keywords = PyList(<<>>)
                    /\ Len(Get(doc, k_sections, Absent).items) = 1
                    /\ Get(Get(doc, k_sections, Absent).items[1], k_body, Absent) =
                            PyStr(ContentPending)

\* C26 witness: the stub of the empty raw text holds the placeholder section, whose
\* body has two words, and a meta of word_count 0 without keywords.
C26_Witness ==
    /\ Stage1StubCalled
    /\ call.raw_text = <<>>
    /\ Get(Get(call.result.val, k_meta, Absent), k_word_count, Absent) = PyInt(0)
    /\ Get(Get(call.result.val, k_meta, Absent), k_keywords, Absent) = PyList(<<>>)
    /\ Len(Get(call.result.val, k_sections, Absent).items) = 1
    /\ TokenCount(Get(Get(call.result.val, k_sections, Absent).items[1], k_body, Absent).s) = 2


\* the extracted text of a parser call does not decode, or decodes to something that is
\* not an object
Undecodable ==
    LET parsed == JsonLoads(call.cleaned) IN ~parsed.ok \/ ~IsDict(parsed.val)

\* C27: when the extracted text fails to decode or decodes to a non-object (array,
\* string, number, null), parse_structured_response returns exactly
\* stub_structured_content(raw_text, preset) and parse_stage1_response returns exactly
\* build_stage1_stub(raw_text, preset, audience, tone, length): the fallback is built
\* from the original raw text, whatever the undecodable model output was.
C27_FallbackFromRawText ==
    /\ (call.fn = "parse_structured_response" /\ Undecodable) =>
            call.result = stub_structured_content(call.raw_text, call.preset)
    /\ (call.fn = "parse_stage1_response" /\ Undecodable) =>
            call.result.val = build_stage1_stub(call.raw_text, call.preset, call.audience,
                                                call.tone, call.length)

\* C27 witness: the model output was the JSON string "just text", the raw text had two
\* paragraphs, and the legacy parser returned a document whose body is those paragraphs.
C27_Witness ==
    /\ call.fn = "parse_structured_response"
    /\ call.model_output = OutString
    /\ JsonLoads(call.cleaned).ok
    /\ IsStr(JsonLoads(call.cleaned).val)
    /\ Len(TrimmedParagraphs(call.raw_text)) = 2
    /\ ~call.result.raised
    /\ Get(call.result.val, k_body, Absent) = StrList(TrimmedParagraphs(call.raw_text))


\* the function of app.py a call names, applied to the arguments of the call
AppResult(c) ==
    IF c.fn \in {"tokenize_words", "text_utils.tokenize_words"}
    THEN tokenize_words(c.text)
    ELSE IF c.fn \in {"extract_keywords", "text_utils.extract_keywords"}
    THEN extract_keywords(c.text, c.limit)
    ELSE IF c.fn \in {"compute_readability_band", "text_utils.compute_readability_band"}
    THEN compute_readability_band(c.word_count)
    ELSE compute_readability_band_stage1(c.word_count)

\* the function of backend/core/text_utils.py of the same name, applied to them
TextUtilsResult(c) ==
    IF c.fn \in {"tokenize_words", "text_utils.tokenize_words"}
    THEN text_utils_tokenize_words(c.text)
    ELSE IF c.fn \in {"extract_keywords", "text_utils.extract_keywords"}
    THEN text_utils_extract_keywords(c.text, c.limit)
    ELSE IF c.fn \in {"compute_readability_band", "text_utils.compute_readability_band"}
    THEN text_utils_compute_readability_band(c.word_count)
    ELSE text_utils_compute_readability_band_stage1(c.word_count)

TextUtilsCalls ==
    {"text_utils.tokenize_words", "text_utils.extract_keywords",
     "text_utils.compute_readability_band", "text_utils.compute_readability_band_stage1"}
AppCalls ==
    {"tokenize_words", "extract_keywords", "compute_readability_band",
     "compute_readability_band_stage1"}

\* C28: the two copies of the text utilities agree: on every input, what tokenize_words,
\* extract_keywords, compute_readability_band and compute_readability_band_stage1 of
\* app.py return is what the function of the same name of backend/core/text_utils.py
\* returns, and the two stopword sets are the same set.
C28_CopiesAgree ==
    /\ text_utils_STOPWORDS = STOPWORDS
    /\ call.fn \in AppCalls => call.result = TextUtilsResult(call)
    /\ call.fn \in TextUtilsCalls => call.result = AppResult(call)

\* C28 witness: extract_keywords of text_utils.py returned two keywords of equal
\* frequency, the longer first, the list app.py returns for the same text and limit.
C28_Witness ==
    /\ call.fn = "text_utils.extract_keywords"
    /\ Len(call.result) = 2
    /\ Len(call.result[1]) > Len(call.result[2])
    /\ call.result = extract_keywords(call.text, call.limit)


\* C29: normalize_structured_content is idempotent and the stub is a fixed point: when
\* it returns document d for a payload, normalizing d again with the same preset
\* returns d; the document stub_structured_content returns is unchanged by a further
\* normalization; and the preset of the document is the preset argument, never the
\* preset key of the payload.
C29_NormalizeIdempotent ==
    /\ NormalizeReturned =>
            /\ normalize_structured_content(call.result.val, call.preset) = call.result
            /\ Get(call.result.val, k_preset, Absent) = call.preset
    /\ StubReturned =>
            /\ normalize_structured_content(call.result.val, call.preset) = call.result
            /\ Get(call.result.val, k_preset, Absent) = call.preset

\* C29 witness: the payload held a preset of its own, an untrimmed headline, a bare
\* string body and a list under cta; the document holds the preset argument and the
\* cleaned values, and a second normalization returns it unchanged.
C29_Witness ==
    /\ NormalizeReturned
    /\ HasKey(call.payload, k_preset)
    /\ Get(call.payload, k_preset, Absent) # call.preset
    /\ Get(call.payload, k_headline, Absent) = PyStr(<<" ", "H", " ">>)
    /\ Get(call.result.val, k_headline, Absent) = PyStr(<<"H">>)
    /\ Get(call.result.val, k_body, Absent) = PyList(<<PyStr(<<"o", "n", "e">>)>>)
    /\ Get(call.result.val, k_preset, Absent) = call.preset
    /\ normalize_structured_content(call.result.val, call.preset) = call.result


\* the words a keyword text was joined from
WordsOf(text) == IF text = <<>> THEN <<>> ELSE Split(text, <<" ">>)

\* three rearrangements of a text's words: the first two exchanged, the first moved to
\* the end, and all reversed and joined by ", ".  Exchanging the first two and moving
\* the first to the end generate every permutation, and the texts of the inputs are
\* closed under both.
Exchanged(text) ==
    LET ws == WordsOf(text) IN
    IF Len(ws) < 2 THEN text
    ELSE Join(<<ws[2], ws[1]>> \o SubSeq(ws, 3, Len(ws)), <<" ">>)

Rotated(text) ==
    LET ws == WordsOf(text) IN
    IF Len(ws) < 2 THEN text ELSE Join(Tail(ws) \o <<Head(ws)>>, <<" ">>)

Reversed(text) ==
    LET ws == WordsOf(text) IN
    Join([i \in 1..Len(ws) |-> ws[Len(ws) + 1 - i]], <<",", " ">>)

\* the token sequences of a and b are permutations of each other
SameTokens(a, b) ==
    LET ta == tokenize_words(a)
        tb == tokenize_words(b)
    IN  /\ Len(ta) = Len(tb)
        /\ \A w \in Range(ta) \cup Range(tb) : Occurrences(ta, w) = Occurrences(tb, w)

\* C30: extract_keywords depends only on the multiset of the tokens: a text whose token
\* sequence is a permutation of the given text's gives the same ordered keyword list for
\* the same limit, and the returned list never holds the same keyword twice.
C30_KeywordsOfMultiset ==
    call.fn = "extract_keywords" =>
        /\ \A other \in {Exchanged(call.text), Rotated(call.text), Reversed(call.text)} :
                /\ SameTokens(other, call.text)
                /\ extract_keywords(other, call.limit) = call.result
        /\ \A i, j \in 1..Len(call.result) : i # j => call.result[i] # call.result[j]

\* C30 witness: a text of two different qualifying words of equal frequency and length
\* and one repeated; the text with the first two exchanged is another text and gives the
\* same two or more keywords.
C30_Witness ==
    /\ call.fn = "extract_keywords"
    /\ Len(call.result) >= 2
    /\ Len(call.result[1]) = Len(call.result[2])
    /\ Exchanged(call.text) # call.text
    /\ WordsOf(call.text)[1] = call.result[2]
    /\ extract_keywords(Exchanged(call.text), call.limit) = call.result

====
